---- MODULE Spec2Model ----
(***************************************************************************)
(* State-machine model of the tester-service: the ScenarioRunner           *)
(* (orchestrator/scenario_runner.py), the ActionExecutor                   *)
(* (orchestrator/action_executor.py), the APIObserver                      *)
(* (observers/api_client.py), the KafkaObserver                            *)
(* (observers/kafka_listener.py), the assertion engines (assertions/*.py)  *)
(* and the batch driver run_all_scenarios (main.py).                       *)
(*                                                                         *)
(* Scheduling.  The runner and the APIObserver polling loops are asyncio   *)
(* coroutines on one event loop: a task or a polling loop takes a step     *)
(* only while the runner is in an await that really yields (an HTTP call   *)
(* or a sleep), or in the last pass of the loop after the runner has       *)
(* ended, and what is ready runs in the order in which it was scheduled.   *)
(* The Kafka consumer is a real thread and interleaves with everything at  *)
(* statement granularity.                                                  *)
(***************************************************************************)
EXTENDS Integers, Sequences, FiniteSets, TLC

\* ------------------------------------------------------------------ bounds
\* Number of scenarios a batch (run_all_scenarios) loads at most.
MaxScenarios == 2
\* Length of a scenario's action list at most.
MaxActions == 2
\* Captured events / snapshots kept at most (guards of the capturing steps).
MaxEvents == 1
MaxSnapshots == 1
\* The same, where the observers run under a caller of their own.
MaxCaptured == 2
\* Longest state history get_state_transitions is applied to on its own.
MaxHistory == 3
\* Largest metric value and threshold the threshold assertions are given.
MaxValue == 2

\* ------------------------------------------------------------ data domains
\* Python's None, as a value of string-typed fields.
None == "<None>"
\* filter(None, ...): the falsy values of a string-or-None field.
Falsy(x) == x = None \/ x = ""

SystemNames == {"s1", "s2"}
StateNames == {"HEALTHY", "ERROR"}
EventTypes == {"CircuitOpened", "Other"}

\* The five polling coroutines start_observing gathers.
Loops == {"states", "policies", "chaos", "drift", "contracts"}
ReplaceLoops == {"chaos", "drift", "contracts"}

Range(s) == {s[i] : i \in DOMAIN s}

\* All sequences over S of length at most n.
SeqsUpTo(S, n) == UNION {[1..k -> S] : k \in 0..n}

\* The lists list(set) can produce: every order of the set's elements.
Orders(S) == {q \in [1..Cardinality(S) -> S] : Range(q) = S}

\* --------------------------------------------------------------- variables
VARIABLES
    \* run_all_scenarios / ScenarioRunner.run_scenario
    pc,            \* position of the orchestration flow
    run,           \* number of the scenario run in progress (also the capture clock)
    nscen,         \* len(scenarios) of the batch
    fail_fast,     \* run_all_scenarios' fail_fast argument
    scenario,      \* the Scenario being run
    systems,       \* systems = self._extract_systems(scenario), line 58
    ai,            \* number of actions whose execute() has been started
    steps,         \* what the current run has done so far, in order
    outcome,       \* what the ActionExecutor.execute call just made returned
    verdicts,      \* results list of _evaluate_expectations
    transitions,   \* transitions of _evaluate_expectations (line 126)
    error,         \* the exception in flight, "" when none
    join_timeout,  \* thread.join(timeout=5) of the current run gave up
    results,       \* results list of run_all_scenarios
    \* APIObserver
    api_observing, state_history, policy_executions, policy_runs,
    chaos_experiments, drift_records, contract_violations,
    tasks,         \* the start_observing task of each run and its five loops
    \* KafkaObserver
    kafka_observing, consumer, thread, closed, threads, events

runnerVars == <<pc, run, nscen, fail_fast, scenario, systems, ai, steps, outcome,
                verdicts, transitions, error, join_timeout, results>>
apiVars == <<api_observing, state_history, policy_executions, policy_runs,
             chaos_experiments, drift_records, contract_violations, tasks>>
kafkaVars == <<kafka_observing, consumer, thread, closed, threads, events>>
vars == <<runnerVars, apiVars, kafkaVars>>

\* ---------------------------------------------------------------- Scenario
\* An action of a scenario: {type, system, duration}.  "BOGUS" stands for
\* any type other than REST, WAIT and CHAOS.
ChaosAction(sys) == [type |-> "CHAOS", system |-> sys, duration |-> <<>>]
WaitAction(d) == [type |-> "WAIT", system |-> None, duration |-> d]
RestAction == [type |-> "REST", system |-> None, duration |-> <<>>]
BogusAction == [type |-> "BOGUS", system |-> None, duration |-> <<>>]

\* The actions of the action lists of every length: a call that waits for a
\* reply, a duration float() rejects, a fault injected into a system.
ActionSet ==
    {RestAction, WaitAction(<<"x">>), ChaosAction("s1")}

\* Expectation descriptors.  A YAML list item that is no mapping has
\* isdict = FALSE.
NonDict == [isdict |-> FALSE]
StateExp(sys) == [isdict |-> TRUE, system |-> sys]
PolicyExp(id, fire) == [isdict |-> TRUE, policy_id |-> id, should_fire |-> fire]
PolicyExpDefault(id) == [isdict |-> TRUE, policy_id |-> id]
EventExp(t, n) == [isdict |-> TRUE, type |-> t, count |-> n]

\* expectations: a mapping from the categories present to their descriptor
\* lists, or None when the YAML key has no value.
NullExpectations == [null |-> <<>>]
IsNull(e) == "null" \in DOMAIN e
Expectations(cats, S, P, E) ==
    [c \in cats |-> IF c = "states" THEN S ELSE IF c = "policies" THEN P ELSE E]

ExpectationSet ==
    { NullExpectations,
      Expectations({}, <<>>, <<>>, <<>>),
      Expectations({"policies"}, <<>>, <<PolicyExp("p1", FALSE), NonDict>>, <<>>),
      Expectations({"states", "policies", "events"}, <<StateExp("s1")>>,
                   <<PolicyExpDefault("p1")>>, <<EventExp("CircuitOpened", 1)>>) }

\* WAIT actions whose duration float() parses: a sleep of no duration
\* ("-1s") and one of 1.5 seconds.
ParsedWaits ==
    {WaitAction(<<"-", "1", "s">>), WaitAction(<<"1", ".", "5", "s">>)}

\* Action lists with an action that returns without waiting for a reply: a
\* WAIT that parses, alone; the sleep of no duration, and an action of an
\* unknown type, alone and after an action that waits for a reply.
ReturningLists ==
    {<<a>> : a \in ParsedWaits}
    \cup {<<RestAction, WaitAction(<<"-", "1", "s">>)>>}
    \cup {<<BogusAction>>, <<RestAction, BogusAction>>}

\* The scenarios run: every action list over ActionSet, and the lists above.
ScenarioSet ==
    [actions : SeqsUpTo(ActionSet, MaxActions) \cup ReturningLists,
     expectations : ExpectationSet]

\* Faulty variant of ExtractSystems: without filter(None, ...).
ExtractSystems_Unfiltered(sc) ==
    {sc.actions[i].system :
        i \in {j \in DOMAIN sc.actions : sc.actions[j].type = "CHAOS"}}
    \cup (IF "states" \in DOMAIN sc.expectations
          THEN {d.system : d \in {x \in Range(sc.expectations.states) : x.isdict}}
          ELSE {})

\* _extract_systems, lines 166-181: TypeError on `'states' in None`.
ExtractRaises(sc) == IsNull(sc.expectations)
ExtractSystems(sc) ==
    LET fromActions ==
            {sc.actions[i].system :
                i \in {j \in DOMAIN sc.actions : sc.actions[j].type = "CHAOS"}}
        fromStates ==
            IF "states" \in DOMAIN sc.expectations
            THEN {d.system : d \in {x \in Range(sc.expectations.states) : x.isdict}}
            ELSE {}
    IN  {x \in fromActions \cup fromStates : ~Falsy(x)}

\* ---------------------------------------------------------- ActionExecutor
Digits == {"0", "1", "2", "3", "4", "5", "6", "7", "8", "9"}
DigitValue(c) == CHOOSE n \in 0..9 : <<"0", "1", "2", "3", "4", "5", "6", "7", "8", "9">>[n + 1] = c

\* Strings are sequences of characters.  str.strip() as float() applies it:
\* the blanks at either end are dropped: space, tab, line feed, carriage
\* return, form feed and (the last of the set, written as the character
\* itself) vertical tab.
RECURSIVE Strip(_)
Strip(s) ==
    LET Blanks == {" ", "\t", "\n", "\r", "\f", ""}
    IN  IF s # <<>> /\ Head(s) \in Blanks THEN Strip(Tail(s))
        ELSE IF s # <<>> /\ s[Len(s)] \in Blanks
        THEN Strip(SubSeq(s, 1, Len(s) - 1))
        ELSE s

\* The number a run of decimal digits writes.
RECURSIVE DecimalValue(_)
DecimalValue(s) ==
    IF s = <<>> THEN 0
    ELSE 10 * DecimalValue(SubSeq(s, 1, Len(s) - 1)) + DigitValue(s[Len(s)])

\* A float is [kind, m, e]: the finite number m * 10^e, with m not a
\* multiple of ten (the double float() returns is the one nearest to that
\* number), an infinity of the sign of m, or nan; numerals have at most
\* seven digits.
NaN == [kind |-> "nan", m |-> 0, e |-> 0]
Zero == [kind |-> "finite", m |-> 0, e |-> 0]

\* The number of decimal digits of n > 0, and its nine leading digits.
NumDigits(n) ==
    IF n < 10 THEN 1 ELSE IF n < 100 THEN 2
    ELSE IF n < 1000 THEN 3 ELSE IF n < 10000 THEN 4
    ELSE IF n < 100000 THEN 5 ELSE IF n < 1000000 THEN 6
    ELSE IF n < 10000000 THEN 7 ELSE IF n < 100000000 THEN 8
    ELSE IF n < 1000000000 THEN 9 ELSE 10
Lead(n, digits) ==
    IF digits >= 9 THEN n \div (10 ^ (digits - 9)) ELSE n * (10 ^ (9 - digits))

\* The float for m * 10^e, m of `digits` digits and no multiple of ten:
\* beyond the largest double (1.7976931348623157e308) the result is an
\* infinity, and below half the smallest (2.4703282292062327e-324) it is
\* zero.
Ranged(m, e, abs, digits) ==
    IF digits + e > 309 \/ (digits + e = 309 /\ Lead(abs, digits) > 179769313)
    THEN [kind |-> "inf", m |-> IF m < 0 THEN 0 - 1 ELSE 1, e |-> 0]
    ELSE IF \/ digits + e < 0 - 323
            \/ (digits + e = 0 - 323 /\ Lead(abs, digits) <= 247032822)
    THEN Zero
    ELSE [kind |-> "finite", m |-> m, e |-> e]

\* Finite(m, e) is the float for m * 10^e.
RECURSIVE Finite(_, _)
Finite(m, e) ==
    IF m = 0 THEN Zero
    ELSE IF m % 10 = 0 THEN Finite(m \div 10, e + 1)
    ELSE IF m < 0 THEN Ranged(m, e, 0 - m, NumDigits(0 - m))
    ELSE Ranged(m, e, m, NumDigits(m))

\* Where c first stands in q, Len(q) + 1 when it does not; what is before
\* and after it.
Position(q, c) ==
    CHOOSE i \in 1..(Len(q) + 1) :
        /\ i = Len(q) + 1 \/ q[i] = c
        /\ \A j \in 1..(i - 1) : q[j] # c
Before(q, c) == SubSeq(q, 1, Position(q, c) - 1)
After(q, c) == SubSeq(q, Position(q, c) + 1, Len(q))

\* A run of digits in which single underscores may stand between digits.
Group(q) ==
    /\ q # <<>>
    /\ q[1] \in Digits /\ q[Len(q)] \in Digits
    /\ \A i \in DOMAIN q : q[i] \in Digits \cup {"_"}
    /\ \A i \in 1..(Len(q) - 1) : ~(q[i] = "_" /\ q[i + 1] = "_")
IsDigit(c) == c \in Digits
DigitsOf(q) == SelectSeq(q, IsDigit)

\* The letters of inf, infinity and nan are read in either case.
Lower(c) ==
    CASE c = "I" -> "i" [] c = "N" -> "n" [] c = "F" -> "f"
      [] c = "T" -> "t" [] c = "Y" -> "y" [] c = "A" -> "a"
      [] c = "E" -> "e" [] OTHER -> c
LowerCase(s) == [i \in DOMAIN s |-> Lower(s[i])]

\* A decimal numeral: integer part ip, fraction fp, and when hasExp the
\* exponent of sign exsign and digits exdigits.
ParseParts(sign, ip, fp, hasExp, exsign, exdigits) ==
    IF /\ ip = <<>> \/ Group(ip)
       /\ fp = <<>> \/ Group(fp)
       /\ ip # <<>> \/ fp # <<>>
       /\ ~hasExp \/ Group(exdigits)
    THEN [ok |-> TRUE,
          value |-> Finite(sign * DecimalValue(DigitsOf(ip \o fp)),
                           exsign * DecimalValue(DigitsOf(exdigits))
                             - Len(DigitsOf(fp)))]
    ELSE [ok |-> FALSE, value |-> NaN]

\* The numeral is the mantissa, and after an "e" the exponent ex.
ParseNumeral(sign, mant, hasExp, ex) ==
    ParseParts(sign, Before(mant, "."), After(mant, "."), hasExp,
               IF ex # <<>> /\ ex[1] = "-" THEN 0 - 1 ELSE 1,
               IF ex # <<>> /\ ex[1] \in {"+", "-"} THEN Tail(ex) ELSE ex)

\* What follows the sign: inf, infinity, nan or a numeral.
ParseUnsigned(sign, u) ==
    IF u \in {<<"i", "n", "f">>, <<"i", "n", "f", "i", "n", "i", "t", "y">>}
    THEN [ok |-> TRUE, value |-> [kind |-> "inf", m |-> sign, e |-> 0]]
    ELSE IF u = <<"n", "a", "n">>
    THEN [ok |-> TRUE, value |-> NaN]
    ELSE ParseNumeral(sign, Before(u, "e"), Position(u, "e") <= Len(u),
                      After(u, "e"))

ParseSigned(s) ==
    ParseUnsigned(IF s # <<>> /\ s[1] = "-" THEN 0 - 1 ELSE 1,
                  IF s # <<>> /\ s[1] \in {"+", "-"} THEN Tail(s) ELSE s)

\* float(s) for a str s (floatobject.c, float_from_string): blanks stripped,
\* an optional sign, then inf, infinity or nan in any case, or a decimal
\* numeral: digits with an optional point and an optional exponent, where
\* single underscores may stand between digits.  ok = FALSE is ValueError.
\* The characters are ASCII.
ParseFloat(str) == ParseSigned(LowerCase(Strip(str)))

IsFloat(s) == ParseFloat(s).ok

\* The seconds of a duration: the float p.value of the text, for the units
\* m and h multiplied by 60 or 3600.  The product is a float of its own
\* (float('1.1') * 3600 is 3960.0000000000005): `times` is the factor, and
\* the seconds are the double product of the float m * 10^e with it.  The
\* product of zero, of an infinity or of nan is itself, and a product
\* beyond the largest double is an infinity.
Product(v, times, exact) ==
    IF v.kind # "finite" \/ v.m = 0 \/ exact.kind = "inf"
    THEN [kind |-> exact.kind, m |-> exact.m, e |-> exact.e, times |-> 1]
    ELSE [kind |-> "finite", m |-> v.m, e |-> v.e, times |-> times]
Scaled(p, unit) ==
    [ok |-> p.ok,
     seconds |-> IF p.value.kind # "finite" \/ unit = "s"
                 THEN Product(p.value, 1, p.value)
                 ELSE IF unit = "m"
                 THEN Product(p.value, 60, Finite(p.value.m * 6, p.value.e + 1))
                 ELSE Product(p.value, 3600,
                              Finite(p.value.m * 36, p.value.e + 2))]

\* _parse_duration, lines 86-95: ok = FALSE is float()'s ValueError.
_parse_duration(d) ==
    IF d # <<>> /\ d[Len(d)] \in {"s", "m", "h"}
    THEN Scaled(ParseFloat(SubSeq(d, 1, Len(d) - 1)), d[Len(d)])
    ELSE Scaled(ParseFloat(d), "s")

\* asyncio.sleep(delay) with delay <= 0 (tasks.py: `if delay <= 0: await
\* __sleep0()`): the caller yields once and is run again in the next pass of
\* the event loop, with no timer; nan <= 0 is false.
ZeroSleep(v) == v.kind # "nan" /\ v.m <= 0

\* Status codes of the model's REST / CHAOS responses.
ActionStatuses == {200, 500}

\* _execute_wait, lines 57-65, for the parsed duration p: float()'s
\* ValueError leaves the call, a sleep of an infinite duration never ends
\* and the call comes to nothing, any other sleep ends in success.
WaitOutcomes(p) ==
    IF ~p.ok
    THEN {[raised |-> TRUE, success |-> FALSE, status |-> 0,
           error |-> "ValueError"]}
    ELSE IF p.seconds.kind = "inf" /\ ~ZeroSleep(p.seconds)
    THEN {}
    ELSE {[raised |-> FALSE, success |-> TRUE, status |-> 0, error |-> ""]}

\* execute, lines 15-27, with _execute_rest, _execute_wait, _execute_chaos:
\* what the call can come to.  raised = TRUE is an exception leaving execute.
ExecuteOutcomes(a) ==
    IF a.type \in {"REST", "CHAOS"}
    THEN {[raised |-> FALSE, success |-> st < 400, status |-> st, error |-> ""] :
            st \in ActionStatuses}
         \cup {[raised |-> FALSE, success |-> FALSE, status |-> 0,
                error |-> "transport"]}
    ELSE IF a.type = "WAIT"
    THEN WaitOutcomes(_parse_duration(a.duration))
    ELSE {[raised |-> FALSE, success |-> FALSE, status |-> 0,
           error |-> "Unknown action type"]}

NoOutcome == [raised |-> FALSE, success |-> FALSE, status |-> 0, error |-> "none"]

\* The call reaches an await that yields to the event loop: the HTTP request
\* of a REST or CHAOS action, the sleep of a WAIT whose duration parsed.
Yields(a) ==
    \/ a.type \in {"REST", "CHAOS"}
    \/ a.type = "WAIT" /\ _parse_duration(a.duration).ok

\* The await of the call is asyncio.sleep with a delay <= 0.
ZeroParsed(p) == p.ok /\ ZeroSleep(p.seconds)
ZeroWait(a) == a.type = "WAIT" /\ ZeroParsed(_parse_duration(a.duration))

\* --------------------------------------------------------------- event loop
\* The event loop runs its callbacks: the orchestration flow is in an await
\* that yields (the HTTP call or sleep of an action, the settle sleep), or
\* has ended ("closing": asyncio.run runs the loop once more before it
\* cancels what is pending).  "idle" is a caller outside run_scenario that
\* awaits something else.
Yielded == pc \in {"exec", "settle", "idle", "closing"}

\* The flow is itself among the callbacks that are ready: it yielded in a
\* sleep of no duration and runs again in this pass of the loop, or it has
\* ended and the pass is the last.  What becomes ready during the pass (a
\* reply, a timer, the loops a starting task gathers) runs after it.
ZeroPass ==
    \/ pc = "closing"
    \/ pc = "exec" /\ ZeroWait(scenario.actions[ai])

\* gather has scheduled the five loops of a task one after the other: once
\* the first of them has run, the others run before any other callback.
MidGather ==
    \E g \in DOMAIN tasks :
        /\ tasks[g].pc = "gather" /\ ~tasks[g].behind
        /\ \E l \in Loops : tasks[g].lpc[l] = "idle"
        /\ \E l \in Loops : tasks[g].lpc[l] # "idle"

\* The flow waits for a reply or for a timer: the loop makes as many passes
\* as it takes, and runs the callback of a reply, of a timer or of the
\* caller between two others.
Suspended == Yielded /\ ~ZeroPass /\ ~MidGather

\* The callback of polling loop l of task g (the reply to its query, the
\* end of its sleep) can run: the flow waits, or the callback became ready
\* in the select() that woke the flow and is queued behind it, and runs,
\* once, in the pass in which the flow went on into a sleep of no duration
\* or to its end.
CallbackRuns(g, l) == Suspended \/ (ZeroPass /\ l \notin tasks[g].ran)

\* The loops of task g whose callback has run behind the flow in this pass.
Ran(g, l) == IF ZeroPass THEN tasks[g].ran \cup {l} ELSE tasks[g].ran

\* ------------------------------------------------------------- APIObserver
\* Bound on the page a policy-executions query returns (limit=50 in the URL).
MaxPage == 2

\* One entry of the 'systems' mapping of GET /api/system/status.
StatusEntries == [state : StateNames \cup {None}, latency : {10}, retries : {0}]

\* What a status query can come to: an exception (transport error, body that
\* is no JSON object), a status other than 200, a 200 whose body has no truthy
\* entry for the system, or a 200 with an entry.
StatusReplies ==
    {[kind |-> k, entry |-> CHOOSE e \in StatusEntries : e.state = None] :
        k \in {"exc", "n200", "absent"}}
    \cup {[kind |-> "ok", entry |-> e] : e \in StatusEntries}

\* Records GET /api/policies/executions can list.
PolicyRecords ==
    { [policyId |-> "p1", policyName |-> "n1", success |-> TRUE],
      [policyId |-> "p2", policyName |-> "p1", success |-> FALSE] }

PolicyReplies ==
    {[kind |-> k, page |-> <<>>] : k \in {"exc", "n200"}}
    \cup {[kind |-> "ok", page |-> p] : p \in SeqsUpTo(PolicyRecords, MaxPage)}

\* Bodies of the chaos / drift / contract-violation queries.
ReplaceReplies ==
    {[kind |-> k, body |-> <<>>] : k \in {"exc", "n200"}}
    \cup {[kind |-> "ok", body |-> <<"r1">>]}

\* The record _observe_states appends (lines 52-58); 'time' is the capture
\* clock.
Snapshot(sys, e) ==
    [time |-> run, system |-> sys, state |-> e.state,
     latency |-> e.latency, retries |-> e.retries]

\* Faulty variant of StatesNext: the try block outside the while loop, so
\* that an exception ends the coroutine.
StatesNext_Abort(kind, si, n) ==
    IF kind = "exc" THEN [pc |-> "exit", si |-> 0]
    ELSE IF si >= n THEN [pc |-> "sleep", si |-> 0]
    ELSE [pc |-> "query", si |-> si + 1]

\* Where _observe_states goes after the reply to the query for systems[si]:
\* an exception leaves the for loop for the except clause and the sleep, any
\* other reply goes on to the next system, and after the last one to the sleep.
StatesNext(kind, si, n) ==
    IF kind = "exc" \/ si >= n
    THEN [pc |-> "sleep", si |-> 0]
    ELSE [pc |-> "query", si |-> si + 1]

\* Faulty variant of LoopCheck: `while True:`, a loop that never reads the
\* flag.
LoopCheck_Unflagged(observing, hasQuery) ==
    IF hasQuery THEN "query" ELSE "sleep"

\* `while self.observing:` of the five loops, taken on wake-up.
LoopCheck(observing, hasQuery) ==
    IF ~observing THEN "exit"
    ELSE IF hasQuery THEN "query" ELSE "sleep"

\* Faulty variant of Accumulate: every record of the page is appended.
Accumulate_All(acc, page) == acc \o page

\* for exec in executions: if exec not in self.policy_executions: append
RECURSIVE Accumulate(_, _)
Accumulate(acc, page) ==
    IF page = <<>> THEN acc
    ELSE Accumulate(IF Head(page) \in Range(acc) THEN acc
                    ELSE Append(acc, Head(page)), Tail(page))

\* The order in which gather schedules the five loops (lines 25-32).
GatherOrder == <<"states", "policies", "chaos", "drift", "contracts">>

\* A start_observing task: `pc` is where the coroutine of start_observing
\* stands ("created": scheduled by create_task and not yet run; "gather": in
\* line 32), lpc where each of its loops stands ("idle": not yet run).
\* `behind` says that the first steps of its loops are queued behind a
\* callback that was ready before the task ran: the flow, or the first step
\* of another task; `ran` holds the loops whose callback has run behind the
\* flow since the flow last ran.
NoTask == [systems |-> <<>>, si |-> 0, reply |-> "none", pc |-> "none",
           behind |-> FALSE, ran |-> {}, lpc |-> [l \in Loops |-> "none"]]

\* asyncio.create_task(self.api_observer.start_observing(systems)): the task
\* exists and has not run yet.
CreateTask(g, sys) ==
    tasks' = [tasks EXCEPT ![g] = [systems |-> sys, si |-> 0, reply |-> "none",
                                   pc |-> "created", behind |-> FALSE,
                                   ran |-> {},
                                   lpc |-> [l \in Loops |-> "idle"]]]

\* Some loop of task g has been scheduled by gather and has not run yet; the
\* loop runs what is ready in the order in which it was scheduled.
Unbegun(g) ==
    /\ tasks[g].pc = "gather" /\ ~tasks[g].behind
    /\ \E l \in Loops : tasks[g].lpc[l] = "idle"

\* Everything that was ready when the flow yielded has run: the flow can be
\* run again.
Drained ==
    \A g \in DOMAIN tasks : tasks[g].pc # "created" /\ ~Unbegun(g)

\* The flow runs again: what the tasks scheduled meanwhile is now ahead of
\* anything the flow schedules.
FlowRuns ==
    tasks' = [g \in DOMAIN tasks |->
                [tasks[g] EXCEPT !.behind = FALSE, !.ran = {}]]

\* start_observing (lines 22-32), first run of the task: the flag is set and
\* gather schedules the five loops.  Tasks run in the order of their
\* creation, and after the loops that were scheduled before they were
\* created.
TaskStart(g) ==
    /\ Yielded
    /\ tasks[g].pc = "created"
    /\ \A h \in DOMAIN tasks : (h < g => tasks[h].pc # "created") /\ ~Unbegun(h)
    /\ api_observing' = TRUE
    /\ LET more == \E h \in DOMAIN tasks : h # g /\ tasks[h].pc = "created"
       IN  tasks' = [h \in DOMAIN tasks |->
                IF h = g
                THEN [tasks[h] EXCEPT !.pc = "gather",
                                      !.behind = ZeroPass \/ more]
                ELSE [tasks[h] EXCEPT !.behind = @ /\ (ZeroPass \/ more)]]
    /\ UNCHANGED <<runnerVars, kafkaVars, state_history, policy_executions,
                   policy_runs, chaos_experiments, drift_records,
                   contract_violations>>

\* stop_observing (lines 34-36).
ApiStop == api_observing' = FALSE

\* A loop tests the flag (lines 41, 67, 85, 101, 117): on its first step,
\* which follows those of the loops gathered before it, or when its sleep
\* ends.
LoopWake(g, l) ==
    /\ \/ CallbackRuns(g, l) /\ tasks[g].lpc[l] = "sleep"
       \/ /\ Yielded /\ tasks[g].lpc[l] = "idle" /\ Unbegun(g)
          /\ \A h \in DOMAIN tasks : h < g => ~Unbegun(h)
          /\ \A i, j \in DOMAIN GatherOrder :
                (i < j /\ GatherOrder[j] = l) => tasks[g].lpc[GatherOrder[i]] # "idle"
    /\ LET to == LoopCheck(api_observing,
                            l # "states" \/ tasks[g].systems # <<>>)
       IN  tasks' = [tasks EXCEPT
              ![g].lpc[l] = to,
              ![g].ran = IF tasks[g].lpc[l] = "sleep" THEN Ran(g, l) ELSE @,
              ![g].si = IF l = "states"
                        THEN (IF to = "query" THEN 1 ELSE 0)
                        ELSE @]
    /\ UNCHANGED <<runnerVars, kafkaVars, api_observing, state_history,
                   policy_executions, policy_runs, chaos_experiments,
                   drift_records, contract_violations>>

\* _observe_states, lines 43-62: the reply to the query for systems[si],
\* with at most n snapshots kept.
StatesReplyN(g, R, n) ==
    /\ CallbackRuns(g, "states")
    /\ tasks[g].lpc["states"] = "query"
    /\ \E r \in R :
        LET t == tasks[g]
            nxt == StatesNext(r.kind, t.si, Len(t.systems))
        IN  /\ r.kind = "ok" => Len(state_history) < n
            /\ state_history' =
                 IF r.kind = "ok"
                 THEN Append(state_history, Snapshot(t.systems[t.si], r.entry))
                 ELSE state_history
            /\ tasks' = [tasks EXCEPT ![g].lpc["states"] = nxt.pc,
                                      ![g].si = nxt.si,
                                      ![g].reply = r.kind,
                                      ![g].ran = Ran(g, "states")]
    /\ UNCHANGED <<runnerVars, kafkaVars, api_observing, policy_executions,
                   policy_runs, chaos_experiments, drift_records,
                   contract_violations>>

StatesReply(g, R) == StatesReplyN(g, R, MaxSnapshots)

\* _observe_policies, lines 72-76: what a reply does to the accumulated
\* records; policy_runs notes the run in which each record was accumulated.
PoliciesEffect(r) ==
    LET acc == IF r.kind = "ok" THEN Accumulate(policy_executions, r.page)
               ELSE policy_executions
    IN  /\ policy_executions' = acc
        /\ policy_runs' = policy_runs \o
             [i \in 1..(Len(acc) - Len(policy_executions)) |-> run]

\* _observe_policies, lines 69-80: the reply to the query in flight.
PoliciesReply(g, R) ==
    /\ CallbackRuns(g, "policies")
    /\ tasks[g].lpc["policies"] = "query"
    /\ \E r \in R : PoliciesEffect(r)
    /\ tasks' = [tasks EXCEPT ![g].lpc["policies"] = "sleep",
                              ![g].ran = Ran(g, "policies")]
    /\ UNCHANGED <<runnerVars, kafkaVars, api_observing, state_history,
                   chaos_experiments, drift_records, contract_violations>>

\* _observe_chaos / _observe_drift / _observe_contracts, lines 88-91,
\* 104-107, 120-123: the latest body replaces what is stored.
ReplaceEffect(l, r) ==
    LET new(old) == IF r.kind = "ok" THEN r.body ELSE old
    IN  /\ chaos_experiments' =
             IF l = "chaos" THEN new(chaos_experiments) ELSE chaos_experiments
        /\ drift_records' =
             IF l = "drift" THEN new(drift_records) ELSE drift_records
        /\ contract_violations' =
             IF l = "contracts" THEN new(contract_violations)
             ELSE contract_violations

\* _observe_chaos / _observe_drift / _observe_contracts, lines 82-128: the
\* reply to the query in flight.
ReplaceReply(g, l, R) ==
    /\ l \in ReplaceLoops
    /\ CallbackRuns(g, l)
    /\ tasks[g].lpc[l] = "query"
    /\ \E r \in R : ReplaceEffect(l, r)
    /\ tasks' = [tasks EXCEPT ![g].lpc[l] = "sleep", ![g].ran = Ran(g, l)]
    /\ UNCHANGED <<runnerVars, kafkaVars, api_observing, state_history,
                   policy_executions, policy_runs>>

\* observer_task.cancel(): a task that has not run never runs; gather
\* cancels the five loops, each of which is in an await and leaves it with
\* CancelledError (not an Exception, so the except clauses of the loops do
\* not catch it), or has not run and never does; a loop that has returned
\* stays as it is.
Cancelled(t) ==
    [t EXCEPT !.pc = IF t.pc \in {"created", "gather"} THEN "cancelled" ELSE t.pc,
              !.ran = {},
              !.lpc = [l \in Loops |-> IF t.lpc[l] \in {"idle", "query", "sleep"}
                                       THEN "cancelled" ELSE t.lpc[l]]]

CancelTask(g) == tasks' = [tasks EXCEPT ![g] = Cancelled(tasks[g])]

\* ----------------------------------------------------------- KafkaObserver
\* What the consumer's iterator can come to on one next(): a decoded JSON
\* object, a message the value_deserializer cannot decode (json.loads raises
\* out of the iterator), a message that decodes to something that is no
\* object, or no message within consumer_timeout_ms (StopIteration).
EventIds == {"e1"}
BusEvents == [eventType : EventTypes, eventId : EventIds]
BusDeliveries ==
    {[kind |-> k, value |-> CHOOSE e \in BusEvents : TRUE] :
        k \in {"undecodable", "nonobject", "silence"}}
    \cup {[kind |-> "event", value |-> e] : e \in BusEvents}

\* erred: the thread has been through its except clause (lines 53-54).
NoThread == [pc |-> "none", cons |-> 0, msg |-> <<>>, erred |-> FALSE]

\* Messages a consumer thread has taken from the iterator and not appended yet.
Held == {t \in DOMAIN threads : threads[t].pc = "got"}

\* start_observing, line 24.
KafkaSetFlag == kafka_observing' = TRUE
\* start_observing, lines 25-30: the consumer of this start replaces the
\* stored one.
KafkaConnect(id) == consumer' = id
\* start_observing, lines 33-34: the thread starts at `while self.observing`.
KafkaThreadStart(id) ==
    /\ thread' = id
    /\ threads' = [threads EXCEPT ![id] = [pc |-> "check", cons |-> 0, msg |-> <<>>, erred |-> FALSE]]
\* stop_observing, line 38.
KafkaClearFlag == kafka_observing' = FALSE
\* stop_observing, lines 39-40: thread.join(timeout=5) returns because the
\* thread has ended ("dead"), or because 5 seconds passed with the thread
\* still inside its for loop ("timeout").
JoinOutcomes ==
    IF thread = 0 THEN {"nothread"}
    ELSE IF threads[thread].pc = "dead" THEN {"dead"}
    ELSE IF threads[thread].pc \in {"iter", "got"} THEN {"timeout"}
    ELSE {}
\* Faulty variant of AfterJoin: join() without a timeout, which waits on for
\* a thread that has not ended.
AfterJoin_Blocking(o) == IF o = "timeout" THEN "join" ELSE "close"

\* Faulty variant of AfterJoin: join() called without the `if self.thread`
\* test, which raises AttributeError on an observer that has no thread.
AfterJoin_Unguarded(o) == IF o = "nothread" THEN "crashed" ELSE "close"

\* Where stop_observing goes when join returns: line 41, whatever the
\* outcome (the return value of join is not looked at).
AfterJoin(o) == "close"

\* stop_observing, lines 41-42.
KafkaClose == closed' = IF consumer # 0 THEN closed \cup {consumer} ELSE closed

\* _consume_events, line 46: `while self.observing`, and on True line 48's
\* iter(self.consumer), which fixes the consumer the for loop reads.
ThreadCheck(t) ==
    /\ threads[t].pc = "check"
    /\ threads' = [threads EXCEPT ![t] =
          IF kafka_observing
          THEN [threads[t] EXCEPT !.pc = "iter", !.cons = consumer]
          ELSE [pc |-> "dead", cons |-> 0, msg |-> <<>>, erred |-> FALSE]]
    /\ UNCHANGED <<runnerVars, apiVars, kafka_observing, consumer, thread,
                   closed, events>>

\* Faulty variant of ThreadAfter: no try/except around the for loop, so
\* that a raising delivery ends the thread.
ThreadAfter_Fatal(kind) ==
    IF kind = "event" THEN "got" ELSE IF kind = "silence" THEN "check" ELSE "dead"

\* Where the thread goes with what next() gave (lines 48-54): an event is
\* held for the append; an undecodable message raises out of the for loop and
\* a non-object raises at line 50, both into the except clause and back to
\* the while; silence ends the for loop.
ThreadAfter(kind) == IF kind = "event" THEN "got" ELSE "check"

\* The delivery raises: json.loads in the deserializer, or line 50 on a
\* value that takes no item assignment with a string key.  The consumer is
\* taken to have moved past the message: the next iteration gets what
\* follows it.
Raises(kind) == kind \in {"undecodable", "nonobject"}

\* _consume_events, lines 48-50: next() on the consumer being iterated.  A
\* closed consumer yields nothing more.  The event is stamped on receipt.
\* At most n events are taken.
ThreadNextN(t, D, n) ==
    /\ threads[t].pc = "iter"
    /\ \E d \in D :
        /\ threads[t].cons \in closed => d.kind = "silence"
        /\ d.kind = "event" => Len(events) + Cardinality(Held) < n
        /\ threads' = [threads EXCEPT ![t].pc = ThreadAfter(d.kind),
              ![t].erred = @ \/ Raises(d.kind),
              ![t].msg = IF d.kind = "event"
                         THEN <<[eventType |-> d.value.eventType,
                                 eventId |-> d.value.eventId,
                                 captured_at |-> run]>>
                         ELSE <<>>]
    /\ UNCHANGED <<runnerVars, apiVars, kafka_observing, consumer, thread,
                   closed, events>>

ThreadNext(t, D) == ThreadNextN(t, D, MaxEvents)

\* Faulty variant of Captured: only the latest event is kept.
Captured_Latest(evs, msg) == msg

\* The event log after self.events.append(event) (line 51); msg is the
\* one-element list of the event.
Captured(evs, msg) == evs \o msg

\* _consume_events, line 51: self.events.append(event).
ThreadAppend(t) ==
    /\ threads[t].pc = "got"
    /\ events' = Captured(events, threads[t].msg)
    /\ threads' = [threads EXCEPT ![t].pc = "iter", ![t].msg = <<>>]
    /\ UNCHANGED <<runnerVars, apiVars, kafka_observing, consumer, thread, closed>>

\* -------------------------------------------------------- assertion engines
\* A verdict is (passed, message); a message is the list of its parts.
Pass(msg) == [passed |-> TRUE, message |-> msg]
Fail(msg) == [passed |-> FALSE, message |-> msg]

IllegalStates == {"UNKNOWN", "ERROR", "INVALID"}

\* StateAssertion.assert_no_illegal_state, state_assertions.py lines 32-44.
assert_no_illegal_state(history) ==
    LET bad == {i \in DOMAIN history : history[i].state \in IllegalStates}
    IN  IF bad = {} THEN Pass(<<"No illegal states detected">>)
        ELSE Fail(<<"Illegal state found",
                    history[CHOOSE i \in bad : \A j \in bad : i <= j].state>>)

\* Faulty variant of PolicyMatches: only the id field is compared.
PolicyMatches_IdOnly(e, id) == e.policyId = id

\* exec.get('policyId') == policy_id or exec.get('policyName') == policy_id
PolicyMatches(e, id) == e.policyId = id \/ e.policyName = id

\* PolicyAssertion.assert_policy_fired, policy_assertions.py lines 10-24.
assert_policy_fired(executions, id) ==
    IF \E i \in DOMAIN executions : PolicyMatches(executions[i], id)
    THEN Pass(<<"Policy", id, "was triggered">>)
    ELSE Fail(<<"Policy", id, "was not triggered">>)

\* PolicyAssertion.assert_policy_not_fired, policy_assertions.py lines 26-40.
assert_policy_not_fired(executions, id) ==
    IF ~(\E i \in DOMAIN executions : PolicyMatches(executions[i], id))
    THEN Pass(<<"Policy", id, "was not triggered (as expected)">>)
    ELSE Fail(<<"Policy", id, "was triggered (unexpected)">>)

\* sum(1 for e in events if e.get('eventType') == event_type)
CountOfType(evs, t) == Cardinality({i \in DOMAIN evs : evs[i].eventType = t})

\* Faulty variant of assert_event_count: at least the expected number.
assert_event_count_AtLeast(evs, t, expected) ==
    IF CountOfType(evs, t) >= expected
    THEN Pass(<<"Event", t, "count">>)
    ELSE Fail(<<"Event", t, "expected, got">>)

\* EventAssertion.assert_event_count, event_assertions.py lines 10-22.
assert_event_count(evs, t, expected) ==
    IF CountOfType(evs, t) = expected
    THEN Pass(<<"Event", t, "count">>)
    ELSE Fail(<<"Event", t, "expected, got">>)

\* dict.get(key, default)
DictGet(d, k, default) == IF k \in DOMAIN d THEN d[k] ELSE default

\* EventAssertion.assert_no_duplicate_events, event_assertions.py lines
\* 50-65.  The events counted are those whose 'event Type' key (as line 59
\* spells it) equals the type and that have an 'eventId'.
assert_no_duplicate_events(evs, t) ==
    LET sel == SelectSeq(evs, LAMBDA e : DictGet(e, "event Type", None) = t
                                          /\ "eventId" \in DOMAIN e)
    IN  IF Len(sel) = Cardinality({sel[i].eventId : i \in DOMAIN sel})
        THEN Pass(<<"No duplicate", t, "events">>)
        ELSE Fail(<<"Found duplicate", t, "events">>)

\* The eventType values of the events whose type is in the list (line 43).
RECURSIVE TypesIn(_, _)
TypesIn(evs, types) ==
    IF evs = <<>> THEN <<>>
    ELSE (IF Head(evs).eventType \in Range(types)
          THEN <<Head(evs).eventType>> ELSE <<>>) \o TypesIn(Tail(evs), types)

\* Faulty variant of assert_event_order: the types of all events are
\* compared, those not in the list too.
assert_event_order_Unfiltered(evs, types) ==
    IF [i \in DOMAIN evs |-> evs[i].eventType] = types
    THEN Pass(<<"Events in correct order">>)
    ELSE Fail(<<"Expected order, got">>)

\* EventAssertion.assert_event_order, event_assertions.py lines 37-48.
assert_event_order(evs, types) ==
    IF TypesIn(evs, types) = types
    THEN Pass(<<"Events in correct order">>)
    ELSE Fail(<<"Expected order, got">>)

\* Faulty variant of assert_policy_success: any() for all().
assert_policy_success_Any(executions, id) ==
    LET m == SelectSeq(executions, LAMBDA e : PolicyMatches(e, id))
    IN  IF m = <<>> THEN Fail(<<"Policy", id, "not found">>)
        ELSE IF \E i \in DOMAIN m : DictGet(m[i], "success", FALSE)
        THEN Pass(<<"Policy", id, "executed successfully">>)
        ELSE Fail(<<"Policy", id, "had failures">>)

\* PolicyAssertion.assert_policy_success, policy_assertions.py lines 42-61.
assert_policy_success(executions, id) ==
    LET m == SelectSeq(executions, LAMBDA e : PolicyMatches(e, id))
    IN  IF m = <<>> THEN Fail(<<"Policy", id, "not found">>)
        ELSE IF \A i \in DOMAIN m : DictGet(m[i], "success", FALSE)
        THEN Pass(<<"Policy", id, "executed successfully">>)
        ELSE Fail(<<"Policy", id, "had failures">>)

\* Faulty variant of assert_final_state: the last snapshot of the history,
\* whatever its system.
assert_final_state_LastOfAll(history, system, expected) ==
    LET own == SelectSeq(history, LAMBDA r : r.system = system)
    IN  IF own = <<>> THEN Fail(<<"No state history for", system>>)
        ELSE IF history[Len(history)].state = expected
        THEN Pass(<<"Final state is", expected>>)
        ELSE Fail(<<"Expected final state", expected, "got",
                    history[Len(history)].state>>)

\* StateAssertion.assert_final_state, state_assertions.py lines 46-63.
assert_final_state(history, system, expected) ==
    LET own == SelectSeq(history, LAMBDA r : r.system = system)
    IN  IF own = <<>> THEN Fail(<<"No state history for", system>>)
        ELSE IF own[Len(own)].state = expected
        THEN Pass(<<"Final state is", expected>>)
        ELSE Fail(<<"Expected final state", expected, "got", own[Len(own)].state>>)

\* Faulty variant of assert_threshold: an operator that is not in the table
\* is not looked at.
assert_threshold_AnyOperator(name, actual, op, threshold) ==
    IF CASE op = "<" -> actual < threshold
         [] op = "<=" -> actual <= threshold
         [] op = ">" -> actual > threshold
         [] op = ">=" -> actual >= threshold
         [] op = "==" -> actual = threshold
         [] op = "!=" -> actual # threshold
         [] OTHER -> TRUE
    THEN Pass(<<name, actual, op, threshold>>)
    ELSE Fail(<<name, actual, "NOT", op, threshold>>)

\* MetricsAssertion.assert_threshold, metrics_assertions.py lines 10-35.
assert_threshold(name, actual, op, threshold) ==
    IF op \notin {"<", "<=", ">", ">=", "==", "!="}
    THEN Fail(<<"Invalid operator", op>>)
    ELSE IF CASE op = "<" -> actual < threshold
              [] op = "<=" -> actual <= threshold
              [] op = ">" -> actual > threshold
              [] op = ">=" -> actual >= threshold
              [] op = "==" -> actual = threshold
              [] op = "!=" -> actual # threshold
    THEN Pass(<<name, actual, op, threshold>>)
    ELSE Fail(<<name, actual, "NOT", op, threshold>>)

\* MetricsAssertion.assert_retry_count_below / assert_latency_below,
\* metrics_assertions.py lines 37-61.
assert_retry_count_below(actual, max) == assert_threshold("retry_count", actual, "<", max)
assert_latency_below(actual, max) == assert_threshold("latency_ms", actual, "<", max)

\* ----------------------------------------------------------- ScenarioRunner
\* str() of a state value inside the f-string of line 139.
StateText(x) == IF x = None THEN "None" ELSE x

\* APIObserver.get_state_transitions, api_client.py lines 135-140: the for
\* loop over the rest of the history with prev_state = prev.  An entry
\* "p -> c" is the record of its two texts.
RECURSIVE TransitionScan(_, _, _)
TransitionScan(history, system, prev) ==
    IF history = <<>> THEN <<>>
    ELSE LET r == Head(history)
         IN  IF r.system # system
             THEN TransitionScan(Tail(history), system, prev)
             ELSE (IF ~Falsy(prev) /\ r.state # prev
                   THEN <<[from |-> StateText(prev), to |-> StateText(r.state)]>>
                   ELSE <<>>)
                  \o TransitionScan(Tail(history), system, r.state)

\* APIObserver.get_state_transitions, api_client.py lines 130-142.
get_state_transitions(history, system) == TransitionScan(history, system, None)

\* _evaluate_expectations, lines 121-162: the checks it makes, in order: one
\* state check per derived system, then the policies and the events
\* descriptors of the categories present.
EvalPlan(sc) ==
    LET exp == sc.expectations
        nsys == Cardinality(ExtractSystems(sc))
    IN  [i \in 1..nsys |-> [kind |-> "state", d |-> NonDict]]
        \o (IF "policies" \in DOMAIN exp
            THEN [i \in DOMAIN exp.policies |->
                    [kind |-> "policy", d |-> exp.policies[i]]]
            ELSE <<>>)
        \o (IF "events" \in DOMAIN exp
            THEN [i \in DOMAIN exp.events |->
                    [kind |-> "event", d |-> exp.events[i]]]
            ELSE <<>>)

\* policy_exp.get / event_exp.get on a descriptor that is no mapping raises
\* AttributeError (lines 135, 154).
CheckRaises(item) == item.kind \in {"policy", "event"} /\ ~item.d.isdict

\* The verdict one check appends (lines 127-130, 135-149, 154-162), over the
\* histories as they are when the check runs.
CheckVerdict(item) ==
    LET r == IF item.kind = "state" THEN assert_no_illegal_state(state_history)
             ELSE IF item.kind = "policy"
             THEN (IF "should_fire" \notin DOMAIN item.d \/ item.d.should_fire
                   THEN assert_policy_fired(policy_executions, item.d.policy_id)
                   ELSE assert_policy_not_fired(policy_executions, item.d.policy_id))
             ELSE assert_event_count(events, item.d.type,
                      IF "count" \in DOMAIN item.d THEN item.d.count ELSE 1)
    IN  [type |-> item.kind, passed |-> r.passed, message |-> r.message]

CountPassed(v) == Cardinality({i \in DOMAIN v : v[i].passed})
CountFailed(v) == Cardinality({i \in DOMAIN v : ~v[i].passed})

\* Faulty variant of EvaluatedResult: PASSED only when some verdict passed.
EvaluatedResult_NeedsPass(name, v) ==
    [scenario_name |-> name,
     status |-> IF CountFailed(v) = 0 /\ CountPassed(v) > 0
                THEN "PASSED" ELSE "FAILED",
     assertions_passed |-> CountPassed(v),
     assertions_failed |-> CountFailed(v),
     details |-> [assertions |-> v]]

\* run_scenario, lines 85-99: the result of a run that was evaluated.
EvaluatedResult(name, v) ==
    [scenario_name |-> name,
     status |-> IF CountFailed(v) = 0 THEN "PASSED" ELSE "FAILED",
     assertions_passed |-> CountPassed(v),
     assertions_failed |-> CountFailed(v),
     details |-> [assertions |-> v]]

\* Faulty variant of ErrorResult: the verdicts collected before the
\* exception are counted next to the synthetic failure.
ErrorResult_Partial(name, v, e) ==
    [scenario_name |-> name,
     status |-> "FAILED",
     assertions_passed |-> CountPassed(v),
     assertions_failed |-> CountFailed(v) + 1,
     details |-> [error |-> e]]

\* run_scenario, lines 101-110: the result of a run that raised.
ErrorResult(name, v, e) ==
    [scenario_name |-> name,
     status |-> "FAILED",
     assertions_passed |-> 0,
     assertions_failed |-> 1,
     details |-> [error |-> e]]

Step(op, i) == [op |-> op, i |-> i]
Log(op, i) == steps' = Append(steps, Step(op, i))

\* run_all_scenarios, lines 109-116, after a run gave its result: the next
\* scenario, or the break, after which nothing up to the return of line 126
\* awaits: the coroutine asyncio.run was given is over.
AfterResult(r) ==
    IF fail_fast /\ r.status = "FAILED" THEN "closing" ELSE "next"

\* asyncio.run (main.py lines 188-193; runners.py, _cancel_all_tasks) ends
\* by cancelling every task that is still pending, also when the coroutine
\* raised.
CancelAll == tasks' = [g \in DOMAIN tasks |-> Cancelled(tasks[g])]

\* run_all_scenarios, line 109: the for loop takes the next scenario; the
\* list is read once and in order, so the scenario is drawn when it is taken.
\* run_scenario, lines 51-52.
NextScenario(S) ==
    /\ pc = "next" /\ run < nscen
    /\ \E sc \in S : scenario' = sc
    /\ run' = run + 1
    /\ pc' = "k_flag"
    /\ systems' = <<>> /\ ai' = 0 /\ steps' = <<>> /\ outcome' = NoOutcome
    /\ verdicts' = <<>> /\ transitions' = <<>>
    /\ error' = "" /\ join_timeout' = FALSE
    /\ UNCHANGED <<nscen, fail_fast, results, apiVars, kafkaVars>>

\* run_all_scenarios, lines 118-126: the loop is over, and the coroutine
\* returns.
BatchEnd ==
    /\ pc = "next" /\ run = nscen
    /\ pc' = "closing"
    /\ UNCHANGED <<run, nscen, fail_fast, scenario, systems, ai, steps, outcome,
                   verdicts, transitions, error, join_timeout, results, kafkaVars,
                   apiVars>>

\* asyncio.run, main.py lines 188-193: the event loop stops after the pass
\* in which the coroutine's completion is handled, with everything that was
\* ready before it run, and what is pending is cancelled.  The coroutine has
\* returned when every run it began gave a result, and has raised otherwise.
RunEnd ==
    /\ pc = "closing" /\ Drained
    /\ pc' = IF Len(results) = run THEN "finished" ELSE "crashed"
    /\ CancelAll
    /\ UNCHANGED <<run, nscen, fail_fast, scenario, systems, ai, steps, outcome,
                   verdicts, transitions, error, join_timeout, results, kafkaVars,
                   api_observing, state_history, policy_executions, policy_runs,
                   chaos_experiments, drift_records, contract_violations>>

\* run_scenario, line 55 -> kafka start_observing, line 24.
StartKafkaFlag ==
    /\ pc = "k_flag"
    /\ KafkaSetFlag
    /\ pc' = "k_conn"
    /\ UNCHANGED <<run, nscen, fail_fast, scenario, systems, ai, steps, outcome,
                   verdicts, transitions, error, join_timeout, results, apiVars,
                   consumer, thread, closed, threads, events>>

\* kafka start_observing, lines 25-30: KafkaConsumer(...) connects, or raises
\* (no broker available).  Line 55 is outside run_scenario's try block and
\* run_all_scenarios has none.
StartKafkaConnect ==
    /\ pc = "k_conn"
    /\ \/ /\ KafkaConnect(run)
          /\ pc' = "k_thread"
          /\ UNCHANGED <<error, tasks>>
       \/ /\ error' = "NoBrokersAvailable"
          /\ pc' = "closing"
          /\ UNCHANGED <<consumer, tasks>>
    /\ UNCHANGED <<run, nscen, fail_fast, scenario, systems, ai, steps, outcome,
                   verdicts, transitions, join_timeout, results, kafka_observing, thread,
                   closed, threads, events, api_observing, state_history,
                   policy_executions, policy_runs, chaos_experiments,
                   drift_records, contract_violations>>

\* kafka start_observing, lines 33-34.
StartKafkaThread ==
    /\ pc = "k_thread"
    /\ KafkaThreadStart(run)
    /\ pc' = "extract"
    /\ UNCHANGED <<run, nscen, fail_fast, scenario, systems, ai, steps, outcome,
                   verdicts, transitions, error, join_timeout, results, apiVars,
                   kafka_observing, consumer, closed, events>>

\* run_scenario, lines 58-61: the systems, in one of the orders list(set)
\* can give, and the observer task; TypeError from _extract_systems is
\* outside the try block too.
StartApi ==
    /\ pc = "extract"
    /\ IF ExtractRaises(scenario)
       THEN /\ error' = "TypeError"
            /\ pc' = "closing"
            /\ UNCHANGED <<systems, tasks>>
       ELSE /\ \E order \in Orders(ExtractSystems(scenario)) :
                /\ systems' = order
                /\ CreateTask(run, order)
            /\ pc' = "actions"
            /\ UNCHANGED error
    /\ UNCHANGED <<run, nscen, fail_fast, scenario, ai, steps, outcome,
                   verdicts, transitions, join_timeout, results, kafkaVars,
                   api_observing, state_history, policy_executions, policy_runs,
                   chaos_experiments, drift_records, contract_violations>>

\* run_scenario, lines 65-67: the for loop starts execute() for the next
\* action.  A call that reaches no yielding await is over in the same step:
\* it returns (unknown type) or raises into line 101 (WAIT whose duration
\* does not parse).
ActionStart ==
    /\ pc = "actions" /\ ai < Len(scenario.actions)
    /\ ai' = ai + 1
    /\ LET a == scenario.actions[ai + 1]
           o == CHOOSE x \in ExecuteOutcomes(a) : TRUE
       IN  IF Yields(a)
           THEN /\ pc' = "exec"
                /\ Log("start", ai + 1)
                /\ outcome' = NoOutcome
                /\ UNCHANGED error
           ELSE IF o.raised
           THEN /\ pc' = "except"
                /\ error' = o.error
                /\ Log("start", ai + 1)
                /\ outcome' = NoOutcome
           ELSE /\ pc' = "actions"
                /\ steps' = steps \o <<Step("start", ai + 1), Step("return", ai + 1)>>
                /\ outcome' = o
                /\ UNCHANGED error
    /\ UNCHANGED <<run, nscen, fail_fast, scenario, systems, verdicts, transitions,
                   join_timeout, results, apiVars, kafkaVars>>

\* run_scenario, line 67: the awaited execute() returns its outcome, once
\* what was ready before the flow yielded has run.  The value of the await
\* is not kept: it is gone when the flow goes on (ActionStart, SettleBegin).
ActionReturn ==
    /\ pc = "exec" /\ Drained
    /\ \E o \in ExecuteOutcomes(scenario.actions[ai]) :
        outcome' = o
    /\ Log("return", ai)
    /\ pc' = "actions"
    /\ FlowRuns
    /\ UNCHANGED <<run, nscen, fail_fast, scenario, systems, ai, verdicts, transitions, error,
                   join_timeout, results, kafkaVars, api_observing, state_history,
                   policy_executions, policy_runs, chaos_experiments,
                   drift_records, contract_violations>>

\* Faulty variant of AfterActions: the settle wait taken only when there
\* was an action to settle after.
AfterActions_SkipEmpty(n) == IF n = 0 THEN "stop_api" ELSE "settle"

\* Where run_scenario goes when the for loop over the actions is over:
\* line 70, whatever the number of actions.
AfterActions(n) == "settle"

\* run_scenario, line 70: asyncio.sleep(5) begins.
SettleBegin ==
    /\ pc = "actions" /\ ai = Len(scenario.actions)
    /\ pc' = AfterActions(Len(scenario.actions))
    /\ outcome' = NoOutcome
    /\ UNCHANGED <<run, nscen, fail_fast, scenario, systems, ai, steps,
                   verdicts, transitions, error, join_timeout, results, apiVars, kafkaVars>>

\* run_scenario, line 70: the sleep is over; the loops have been running.
SettleEnd ==
    /\ pc = "settle" /\ Drained
    /\ Log("settle", 0)
    /\ pc' = "stop_api"
    /\ UNCHANGED <<run, nscen, fail_fast, scenario, systems, ai, outcome,
                   verdicts, transitions, error, join_timeout, results, apiVars, kafkaVars>>

\* run_scenario, line 73.
StopApi ==
    /\ pc = "stop_api"
    /\ ApiStop
    /\ Log("stop_api", 0)
    /\ pc' = "stop_kafka"
    /\ UNCHANGED <<run, nscen, fail_fast, scenario, systems, ai, outcome,
                   verdicts, transitions, error, join_timeout, results, kafkaVars,
                   state_history, policy_executions, policy_runs,
                   chaos_experiments, drift_records, contract_violations, tasks>>

\* run_scenario, line 74 -> kafka stop_observing, line 38.
StopKafkaFlag ==
    /\ pc = "stop_kafka"
    /\ KafkaClearFlag
    /\ pc' = "join"
    /\ UNCHANGED <<run, nscen, fail_fast, scenario, systems, ai, steps, outcome,
                   verdicts, transitions, error, join_timeout, results, apiVars,
                   consumer, thread, closed, threads, events>>

\* kafka stop_observing, lines 39-40; the event loop is blocked meanwhile.
StopKafkaJoin ==
    /\ pc = "join"
    /\ \E o \in JoinOutcomes :
        /\ join_timeout' = (join_timeout \/ o = "timeout")
        /\ pc' = AfterJoin(o)
    /\ UNCHANGED <<run, nscen, fail_fast, scenario, systems, ai, steps, outcome,
                   verdicts, transitions, error, results, apiVars, kafkaVars>>

\* kafka stop_observing, lines 41-42; stop_observing returns.
StopKafkaClose ==
    /\ pc = "close"
    /\ KafkaClose
    /\ Log("stop_kafka", 0)
    /\ pc' = "cancel"
    /\ UNCHANGED <<run, nscen, fail_fast, scenario, systems, ai, outcome,
                   verdicts, transitions, error, join_timeout, results, apiVars,
                   kafka_observing, consumer, thread, threads, events>>

\* run_scenario, line 77, and _evaluate_expectations, lines 114-122: the
\* histories are taken (by reference) from the observers.
CancelAndRead ==
    /\ pc = "cancel"
    /\ CancelTask(run)
    /\ Log("read", 0)
    /\ pc' = "eval"
    /\ UNCHANGED <<run, nscen, fail_fast, scenario, systems, ai, outcome,
                   verdicts, transitions, error, join_timeout, results, kafkaVars,
                   api_observing, state_history, policy_executions, policy_runs,
                   chaos_experiments, drift_records, contract_violations>>

\* _evaluate_expectations, lines 125-162: the next check, which appends its
\* verdict or raises into line 101.
Evaluate ==
    /\ pc = "eval" /\ Len(verdicts) < Len(EvalPlan(scenario))
    /\ LET item == EvalPlan(scenario)[Len(verdicts) + 1]
       IN  IF CheckRaises(item)
           THEN /\ pc' = "except"
                /\ error' = "AttributeError"
                /\ UNCHANGED <<verdicts, transitions>>
           ELSE /\ verdicts' = Append(verdicts, CheckVerdict(item))
                /\ transitions' =
                      IF item.kind = "state"
                      THEN get_state_transitions(state_history,
                                                 systems[Len(verdicts) + 1])
                      ELSE transitions
                /\ UNCHANGED <<pc, error>>
    /\ Log("assert", Len(verdicts) + 1)
    /\ UNCHANGED <<run, nscen, fail_fast, scenario, systems, ai, outcome,
                   join_timeout, results, apiVars, kafkaVars>>

\* run_scenario, lines 83-99, and run_all_scenarios, lines 111-116.
ReturnResult ==
    /\ pc = "eval" /\ Len(verdicts) = Len(EvalPlan(scenario))
    /\ LET r == EvaluatedResult(run, verdicts)
       IN  /\ results' = Append(results, r)
           /\ pc' = AfterResult(r)
    /\ UNCHANGED <<run, nscen, fail_fast, scenario, systems, ai, steps, outcome,
                   verdicts, transitions, error, join_timeout, apiVars, kafkaVars>>

\* run_scenario, lines 101-110, and run_all_scenarios, lines 111-116.
ReturnError ==
    /\ pc = "except"
    /\ LET r == ErrorResult(run, verdicts, error)
       IN  /\ results' = Append(results, r)
           /\ pc' = AfterResult(r)
    /\ UNCHANGED <<run, nscen, fail_fast, scenario, systems, ai, steps, outcome,
                   verdicts, transitions, error, join_timeout, apiVars, kafkaVars>>

\* ----------------------------------------------------------- specification
NoScenario == [actions |-> <<>>, expectations |-> NullExpectations]

\* APIObserver.__init__ (api_client.py lines 13-20) and
\* KafkaObserver.__init__ (kafka_listener.py lines 14-20).
FreshObservers ==
    /\ api_observing = FALSE
    /\ state_history = <<>> /\ policy_executions = <<>> /\ policy_runs = <<>>
    /\ chaos_experiments = <<>> /\ drift_records = <<>>
    /\ contract_violations = <<>>
    /\ tasks = [g \in 1..MaxScenarios |-> NoTask]
    /\ kafka_observing = FALSE /\ consumer = 0 /\ thread = 0 /\ closed = {}
    /\ threads = [t \in 1..MaxScenarios |-> NoThread]
    /\ events = <<>>

\* run_all_scenarios on freshly constructed observers (main.py lines 89-106)
\* with n scenarios loaded.
InitWith(N, F) ==
    /\ pc = "next" /\ run = 0
    /\ nscen \in N
    /\ fail_fast \in F
    /\ scenario = NoScenario
    /\ systems = <<>> /\ ai = 0 /\ steps = <<>> /\ outcome = NoOutcome
    /\ verdicts = <<>> /\ transitions = <<>>
    /\ error = "" /\ join_timeout = FALSE /\ results = <<>>
    /\ FreshObservers

Runner(S) ==
    \/ NextScenario(S) \/ BatchEnd \/ RunEnd
    \/ StartKafkaFlag \/ StartKafkaConnect \/ StartKafkaThread \/ StartApi
    \/ ActionStart \/ ActionReturn \/ SettleBegin \/ SettleEnd
    \/ StopApi \/ StopKafkaFlag \/ StopKafkaJoin \/ StopKafkaClose
    \/ CancelAndRead \/ Evaluate \/ ReturnResult \/ ReturnError

\* The start_observing tasks and their loops under a target that answers
\* the status and the policy queries; its answers to the chaos, drift and
\* contract queries do not come before the run is over.
ObserverTasks(SR, PR) ==
    \/ \E g \in 1..MaxScenarios : TaskStart(g)
    \/ \E g \in 1..MaxScenarios, l \in Loops :
          (l \in ReplaceLoops => tasks[g].lpc[l] = "idle") /\ LoopWake(g, l)
    \/ \E g \in 1..MaxScenarios : StatesReply(g, SR)
    \/ \E g \in 1..MaxScenarios : PoliciesReply(g, PR)

KafkaThreads(D) ==
    \E t \in 1..MaxScenarios :
        ThreadCheck(t) \/ ThreadNext(t, D) \/ ThreadAppend(t)

\* --- Spec: one scenario run on fresh observers (run_single_scenario, or a
\* batch of one).  The target system answers with one status entry per
\* state, one policy record and one event type.
RunStatusReplies ==
    {r \in StatusReplies : r.kind = "ok" /\ r.entry.state # None}
RunPolicyReplies ==
    {r \in PolicyReplies : r.kind = "ok" /\ r.page \in {<<>>, <<CHOOSE e \in PolicyRecords : e.policyId = "p1">>}}
RunDeliveries ==
    {d \in BusDeliveries : d.value.eventType = "CircuitOpened"}

Init == InitWith({1}, {FALSE})

Next ==
    \/ Runner(ScenarioSet)
    \/ ObserverTasks(RunStatusReplies, RunPolicyReplies)
    \/ KafkaThreads(RunDeliveries)

Spec == Init /\ [][Next]_vars

\* --- SpecLive: Spec, over the scenarios of at most one action, with the
\* straight-line code from thread.join to the return of run_scenario
\* (kafka_listener.py lines 39-42, scenario_runner.py lines 77-110) taken to
\* completion: none of it awaits, or waits on anything but the join timeout.
Finishing ==
    \/ StopKafkaJoin \/ StopKafkaClose \/ CancelAndRead
    \/ Evaluate \/ ReturnResult \/ ReturnError

LiveScenarioSet == {sc \in ScenarioSet : Len(sc.actions) <= 1}

NextLive ==
    \/ Runner(LiveScenarioSet)
    \/ ObserverTasks(RunStatusReplies, RunPolicyReplies)
    \/ KafkaThreads(RunDeliveries)

SpecLive == Init /\ [][NextLive]_vars /\ WF_vars(Finishing)

\* --- SpecBatch: run_all_scenarios over MaxScenarios scenarios, on the one
\* pair of observers it constructs (main.py lines 89-95).
BatchScenarioSet ==
    {sc \in ScenarioSet :
        /\ sc.actions \in {<<>>, <<ChaosAction("s1")>>, <<WaitAction(<<"x">>)>>}
        /\ DOMAIN sc.expectations = {"states", "policies", "events"}}

InitBatch == InitWith({MaxScenarios}, BOOLEAN)

NextBatch ==
    \/ Runner(BatchScenarioSet)
    \/ ObserverTasks(RunStatusReplies, RunPolicyReplies)
    \/ KafkaThreads(RunDeliveries)

SpecBatch == InitBatch /\ [][NextBatch]_vars

\* --- SpecAPI: the APIObserver alone, under a caller that starts it once
\* with create_task, stays on the event loop and calls stop_observing at
\* some point after start_observing has begun; every step of every polling
\* loop is a step of its own.
ObserverSystems == {<<>>, <<"s1">>, <<"s1", "s2">>}

ApiStatusReplies ==
    {r \in StatusReplies : r.kind = "ok" => r.entry.state = "HEALTHY"}
ApiPolicyReplies ==
    {r \in PolicyReplies : r.kind # "ok"} \cup RunPolicyReplies

\* asyncio.create_task(observer.start_observing(systems)), as in
\* scenario_runner.py lines 59-61.
ObserverStart ==
    /\ pc = "idle" /\ Suspended /\ tasks[1] = NoTask
    /\ \E sys \in ObserverSystems : CreateTask(1, sys)
    /\ UNCHANGED <<runnerVars, kafkaVars, api_observing, state_history,
                   policy_executions, policy_runs, chaos_experiments,
                   drift_records, contract_violations>>

\* observer.stop_observing(), api_client.py lines 34-36.
ObserverStop ==
    /\ pc = "idle" /\ Suspended /\ api_observing
    /\ ApiStop
    /\ UNCHANGED <<runnerVars, kafkaVars, state_history, policy_executions,
                   policy_runs, chaos_experiments, drift_records,
                   contract_violations, tasks>>

PollingLoops ==
    \/ TaskStart(1)
    \/ \E l \in Loops : LoopWake(1, l)
    \/ StatesReply(1, ApiStatusReplies)
    \/ PoliciesReply(1, ApiPolicyReplies)
    \/ \E l \in ReplaceLoops : ReplaceReply(1, l, ReplaceReplies)

InitAPI ==
    /\ pc = "idle" /\ run = 1 /\ nscen = 1 /\ fail_fast = FALSE
    /\ scenario = NoScenario
    /\ systems = <<>> /\ ai = 0 /\ steps = <<>> /\ outcome = NoOutcome
    /\ verdicts = <<>> /\ transitions = <<>>
    /\ error = "" /\ join_timeout = FALSE /\ results = <<>>
    /\ FreshObservers

NextAPI == ObserverStart \/ ObserverStop \/ PollingLoops

SpecAPI == InitAPI /\ [][NextAPI]_vars

\* SpecAPILive: the event loop keeps running what is ready: a sleep ends
\* after its interval and a query comes to a reply or to an exception.
SpecAPILive == InitAPI /\ [][NextAPI]_vars /\ WF_vars(PollingLoops)

\* --- SpecTransitions: get_state_transitions applied to a state history
\* _observe_states can have built: snapshots of the tracked systems in any
\* order, each with the state the status response gave: a state name, an
\* empty string, or None when the entry has no "state" (line 54,
\* system_status.get('state')).
Histories ==
    SeqsUpTo({Snapshot(sys, e) :
                sys \in SystemNames,
                e \in [state : StateNames \cup {None, ""}, latency : {10}, retries : {0}]},
             MaxHistory)

InitTransitions ==
    /\ pc = "idle" /\ run = 1 /\ nscen = 1 /\ fail_fast = FALSE
    /\ scenario = NoScenario
    /\ systems = <<>> /\ ai = 0 /\ steps = <<>> /\ outcome = NoOutcome
    /\ verdicts = <<>> /\ transitions = <<>>
    /\ error = "" /\ join_timeout = FALSE /\ results = <<>>
    /\ api_observing = FALSE
    /\ state_history \in Histories
    /\ policy_executions = <<>> /\ policy_runs = <<>>
    /\ chaos_experiments = <<>> /\ drift_records = <<>>
    /\ contract_violations = <<>>
    /\ tasks = [g \in 1..MaxScenarios |-> NoTask]
    /\ kafka_observing = FALSE /\ consumer = 0 /\ thread = 0 /\ closed = {}
    /\ threads = [t \in 1..MaxScenarios |-> NoThread]
    /\ events = <<>>

\* transitions = self.api_observer.get_state_transitions(system), for the
\* system the caller names (kept in systems).
GetTransitions ==
    /\ pc = "idle"
    /\ \E sys \in SystemNames :
        /\ systems' = <<sys>>
        /\ transitions' = get_state_transitions(state_history, sys)
    /\ UNCHANGED <<pc, run, nscen, fail_fast, scenario, ai, steps, outcome,
                   verdicts, error, join_timeout, results, apiVars, kafkaVars>>

SpecTransitions == InitTransitions /\ [][GetTransitions]_vars

\* --- SpecEval: _evaluate_expectations and the result of run_scenario, for
\* a scenario and the histories the observers hold when line 77 is reached:
\* the evaluation reads the scenario's expectations and the three histories
\* and nothing else.
EvalExpectationSet ==
    (ExpectationSet \ {NullExpectations})
    \cup { Expectations({"events"}, <<>>, <<>>, <<EventExp("CircuitOpened", 1)>>),
           Expectations({"events"}, <<>>, <<>>, <<EventExp("CircuitOpened", 2)>>),
           Expectations({"events"}, <<>>, <<>>,
                        <<[isdict |-> TRUE, type |-> "Other"], EventExp("CircuitOpened", 0)>>),
           Expectations({"policies"}, <<>>,
                        <<PolicyExpDefault("p1"), PolicyExp("n1", TRUE)>>, <<>>),
           Expectations({"policies"}, <<>>,
                        <<PolicyExp("p2", FALSE), PolicyExp("p1", FALSE)>>, <<>>),
           Expectations({"states"},
                        <<StateExp("s2"), StateExp(""), StateExp("s1"), StateExp("s2")>>,
                        <<>>, <<>>),
           [c \in {"metrics"} |-> <<[isdict |-> TRUE, name |-> "latency"]>>] }

EvalScenarioSet ==
    [actions : {<<>>, <<RestAction, WaitAction(<<"5", "s">>)>>, <<ChaosAction("s1")>>},
     expectations : EvalExpectationSet]

InitEval ==
    /\ pc = "eval" /\ run = 1 /\ nscen = 1 /\ fail_fast = FALSE
    /\ scenario \in EvalScenarioSet
    /\ systems \in Orders(ExtractSystems(scenario))
    /\ ai = Len(scenario.actions) /\ steps = <<>> /\ outcome = NoOutcome
    /\ verdicts = <<>> /\ transitions = <<>>
    /\ error = "" /\ join_timeout = FALSE /\ results = <<>>
    /\ api_observing = FALSE
    /\ state_history \in {<<>>} \cup {<<Snapshot("s1", e)>> : e \in StatusEntries}
    /\ policy_executions \in
          {q \in SeqsUpTo(PolicyRecords, MaxPage) : Accumulate(<<>>, q) = q}
    /\ policy_runs = [i \in DOMAIN policy_executions |-> 1]
    /\ chaos_experiments = <<>> /\ drift_records = <<>>
    /\ contract_violations = <<>>
    /\ tasks = [g \in 1..MaxScenarios |-> NoTask]
    /\ kafka_observing = FALSE /\ consumer = 0 /\ thread = 0 /\ closed = {}
    /\ threads = [t \in 1..MaxScenarios |-> NoThread]
    /\ events \in
          SeqsUpTo([eventType : EventTypes, eventId : EventIds, captured_at : {1}],
                   MaxCaptured)

NextEval == Evaluate \/ ReturnResult \/ ReturnError \/ BatchEnd \/ RunEnd

SpecEval == InitEval /\ [][NextEval]_vars

\* --- SpecAssert: the assertion engines applied, each on its own, to
\* histories the observers can hold and to the arguments a caller can
\* give.  The verdict of the call is kept in verdicts, next to the name of
\* the assertion and its arguments.
InitAssert ==
    /\ pc = "idle" /\ run = 1 /\ nscen = 1 /\ fail_fast = FALSE
    /\ scenario = NoScenario
    /\ systems = <<>> /\ ai = 0 /\ steps = <<>> /\ outcome = NoOutcome
    /\ verdicts = <<>> /\ transitions = <<>>
    /\ error = "" /\ join_timeout = FALSE /\ results = <<>>
    /\ api_observing = FALSE
    /\ \/ /\ state_history \in Histories
          /\ policy_executions = <<>> /\ events = <<>>
       \/ /\ policy_executions \in
                SeqsUpTo(PolicyRecords \cup {[policyId |-> "p1", policyName |-> "n1"]},
                         MaxPage)
          /\ state_history = <<>> /\ events = <<>>
       \/ /\ events \in
                SeqsUpTo([eventType : EventTypes, eventId : {"e1", "e2"},
                          captured_at : {1}], MaxHistory)
          /\ state_history = <<>> /\ policy_executions = <<>>
    /\ policy_runs = [i \in DOMAIN policy_executions |-> 1]
    /\ chaos_experiments = <<>> /\ drift_records = <<>>
    /\ contract_violations = <<>>
    /\ tasks = [g \in 1..MaxScenarios |-> NoTask]
    /\ kafka_observing = FALSE /\ consumer = 0 /\ thread = 0 /\ closed = {}
    /\ threads = [t \in 1..MaxScenarios |-> NoThread]

\* One call of an assertion, on the history it reads: its verdict, under
\* the assertion's name and with its arguments.
Call(name, args, v) ==
    /\ pc = "idle" /\ verdicts = <<>>
    /\ verdicts' = <<[type |-> name, args |-> args, passed |-> v.passed,
                      message |-> v.message]>>
    /\ UNCHANGED <<pc, run, nscen, fail_fast, scenario, systems, ai, steps,
                   outcome, transitions, error, join_timeout, results,
                   apiVars, kafkaVars>>

NextAssert ==
    \/ /\ state_history = <<>> /\ policy_executions = <<>>
       /\ \E t \in EventTypes :
            Call("no_duplicates", <<t>>, assert_no_duplicate_events(events, t))
    \/ /\ state_history = <<>> /\ policy_executions = <<>>
       /\ \E types \in SeqsUpTo(EventTypes, MaxCaptured) :
            Call("event_order", <<types>>, assert_event_order(events, types))
    \/ /\ state_history = <<>> /\ events = <<>>
       /\ \E id \in {"p1", "n1", "p2", "p9"} :
            Call("policy_success", <<id>>,
                 assert_policy_success(policy_executions, id))
    \/ /\ policy_executions = <<>> /\ events = <<>>
       /\ \E sys \in SystemNames, expected \in StateNames :
            Call("final_state", <<sys, expected>>,
                 assert_final_state(state_history, sys, expected))
    \/ /\ state_history = <<>> /\ policy_executions = <<>> /\ events = <<>>
       /\ \E a \in 0..MaxValue, th \in 0..MaxValue,
             op \in {"<", "<=", ">", ">=", "==", "!=", "=<", ""} :
            Call("threshold", <<a, op, th>>, assert_threshold("m", a, op, th))
    \/ /\ state_history = <<>> /\ policy_executions = <<>> /\ events = <<>>
       /\ \E a \in 0..MaxValue, max \in 0..MaxValue :
            Call("retry_count_below", <<a, max>>, assert_retry_count_below(a, max))
    \/ /\ state_history = <<>> /\ policy_executions = <<>> /\ events = <<>>
       /\ \E a \in 0..MaxValue, max \in 0..MaxValue :
            Call("latency_below", <<a, max>>, assert_latency_below(a, max))

SpecAssert == InitAssert /\ [][NextAssert]_vars

\* The replies to a status query that end a pass or add a snapshot.
CaptureStatusReplies == {r \in ApiStatusReplies : r.kind \in {"exc", "ok"}}

\* --- SpecTwice: start_observing awaited on one APIObserver more than once
\* (api_client.py lines 22-32 have no test of self.observing): each call is a
\* task of its own, whose gather starts its own five loops over the shared
\* histories.  The states loops take every step; the queries of the others
\* stay unanswered.
StartObserving ==
    /\ pc = "idle" /\ Suspended
    /\ \E g \in DOMAIN tasks :
        /\ tasks[g] = NoTask
        /\ \A h \in 1..(g - 1) : tasks[h] # NoTask
        /\ \E sys \in {<<"s1">>, <<"s1", "s2">>} :
            /\ g > 1 => sys = tasks[1].systems
            /\ CreateTask(g, sys)
    /\ UNCHANGED <<runnerVars, kafkaVars, api_observing, state_history,
                   policy_executions, policy_runs, chaos_experiments,
                   drift_records, contract_violations>>

TwiceLoops ==
    \/ \E g \in DOMAIN tasks : TaskStart(g)
    \/ \E g \in DOMAIN tasks, l \in Loops :
          (l # "states" => tasks[g].lpc[l] = "idle") /\ LoopWake(g, l)
    \/ \E g \in DOMAIN tasks : StatesReplyN(g, CaptureStatusReplies, MaxCaptured)

NextTwice == StartObserving \/ ObserverStop \/ TwiceLoops

SpecTwice == InitAPI /\ [][NextTwice]_vars

\* --- SpecCapture: the two observers under a caller that stays on the
\* event loop and makes the calls of run_scenario when it chooses: the
\* start of either observer (lines 55, 59-61), then the two stops (lines
\* 73-74), a second time too and also on an observer never started, and the
\* evaluation (lines 77-99).  The states and the policies loop take every
\* step; the queries of the other three loops stay unanswered.
CaptureScenario ==
    [actions |-> <<>>,
     expectations |->
        Expectations({"states", "policies", "events"},
                     <<StateExp("s1"), StateExp("s2")>>,
                     <<PolicyExpDefault("p1")>>,
                     <<EventExp("CircuitOpened", 1)>>)]


InitCapture ==
    /\ pc = "idle" /\ run = 1 /\ nscen = 1 /\ fail_fast = FALSE
    /\ scenario = CaptureScenario
    /\ systems = <<"s1", "s2">>
    /\ ai = 0 /\ steps = <<>> /\ outcome = NoOutcome
    /\ verdicts = <<>> /\ transitions = <<>>
    /\ error = "" /\ join_timeout = FALSE /\ results = <<>>
    /\ FreshObservers

\* The caller goes from its await into a call, or from a call that has
\* returned back into its await.
CallerGoes(from, to) ==
    /\ pc = from /\ pc' = to
    /\ from = "idle" => Suspended
    /\ UNCHANGED <<run, nscen, fail_fast, scenario, systems, ai, steps, outcome,
                   verdicts, transitions, error, join_timeout, results,
                   apiVars, kafkaVars>>

\* self.kafka_observer.start_observing() is called (line 55), once, and
\* before any stop.
CallKafkaStart ==
    /\ steps = <<>>
    /\ thread = 0 /\ consumer = 0 /\ ~kafka_observing
    /\ CallerGoes("idle", "k_flag")
KafkaStartReturns == CallerGoes("extract", "idle")

\* asyncio.create_task(self.api_observer.start_observing(systems)), once,
\* and before any stop.
CallApiStart ==
    /\ steps = <<>>
    /\ pc = "idle" /\ Suspended /\ tasks[1] = NoTask
    /\ CreateTask(1, systems)
    /\ UNCHANGED <<runnerVars, kafkaVars, api_observing, state_history,
                   policy_executions, policy_runs, chaos_experiments,
                   drift_records, contract_violations>>

\* The two stop calls (lines 73-74) are made, at most twice.
StopCalls == Cardinality({k \in DOMAIN steps : steps[k].op = "stop_kafka"})
CallStop == StopCalls < 2 /\ CallerGoes("idle", "stop_api")
StopReturns == CallerGoes("cancel", "idle")

CaptureCaller ==
    \/ CallKafkaStart \/ StartKafkaFlag \/ StartKafkaConnect
    \/ StartKafkaThread \/ KafkaStartReturns
    \/ CallApiStart
    \/ CallStop \/ StopApi \/ StopKafkaFlag \/ StopKafkaJoin \/ StopKafkaClose
    \/ StopReturns
    \/ CancelAndRead \/ Evaluate \/ ReturnResult \/ BatchEnd \/ RunEnd

CaptureLoops ==
    \/ TaskStart(1)
    \/ \E l \in Loops :
          (l \in ReplaceLoops => tasks[1].lpc[l] = "idle") /\ LoopWake(1, l)
    \/ StatesReplyN(1, CaptureStatusReplies, MaxCaptured)
    \/ PoliciesReply(1, PolicyReplies)

CaptureDeliveries == {d \in BusDeliveries : d.kind \in {"silence", "event"}}

CaptureThread ==
    \/ ThreadCheck(1)
    \/ ThreadNextN(1, CaptureDeliveries, MaxCaptured)
    \/ ThreadAppend(1)

NextCapture == CaptureCaller \/ CaptureLoops \/ CaptureThread

SpecCapture == InitCapture /\ [][NextCapture]_vars

\* ------------------------------------------------------------------ claims
IsPrefix(s, t) == Len(s) <= Len(t) /\ SubSeq(t, 1, Len(s)) = s

Has(op) == \E k \in DOMAIN steps : steps[k].op = op
Count(op, i) == Cardinality({k \in DOMAIN steps : steps[k] = Step(op, i)})
Rank(op) ==
    CASE op \in {"start", "return"} -> 1
      [] op = "settle" -> 2
      [] op = "stop_api" -> 3
      [] op = "stop_kafka" -> 4
      [] op = "read" -> 5
      [] op = "assert" -> 6

\* run_scenario has returned a TestResult to its caller.
Returned ==
    pc \in {"next", "closing", "finished"} /\ run >= 1 /\ Len(results) = run
LastResult == results[Len(results)]

\* C1: the steps of a run come in the order actions, settle wait, API
\* observer stop, Kafka observer stop, reading of the histories, assertions,
\* and none is skipped: the settle wait follows the return of every action
\* (also of none), each later step has all the earlier ones before it, and
\* the histories are read only with both stop calls returned.
C1_StepOrder ==
    /\ \A j, k \in DOMAIN steps :
          j < k => Rank(steps[j].op) <= Rank(steps[k].op)
    /\ Has("settle") =>
          \A i \in DOMAIN scenario.actions : Count("return", i) = 1
    /\ Has("stop_api") => Count("settle", 0) = 1
    /\ Has("stop_kafka") => Count("stop_api", 0) = 1
    /\ Has("read") =>
          /\ Count("stop_kafka", 0) = 1 /\ Count("stop_api", 0) = 1
          /\ ~api_observing /\ ~kafka_observing /\ consumer \in closed
    /\ (Has("assert") \/ pc = "eval") => Count("read", 0) = 1
    /\ (Returned /\ error = "") => Count("read", 0) = 1

\* A run of a scenario without actions that was evaluated and returned.
C1_Witness ==
    /\ Returned /\ error = ""
    /\ scenario.actions = <<>>
    /\ Has("settle") /\ Has("assert")

\* C2: action i+1 is started only after action i has returned, and when
\* run_scenario has returned every action of the list has been started
\* exactly once.
C2_EveryActionStarted ==
    /\ \A k \in DOMAIN steps :
          (steps[k].op = "start" /\ steps[k].i > 1) =>
              \E j \in 1..(k - 1) : steps[j] = Step("return", steps[k].i - 1)
    /\ Returned =>
          \A i \in DOMAIN scenario.actions : Count("start", i) = 1

\* C3: once KafkaObserver.stop_observing has returned the consumer is closed
\* and no step appends to the event log.
C3_NoAppendAfterStop ==
    [][Has("stop_kafka") => (consumer \in closed /\ events' = events)]_vars

\* C4: no exception leaves run_scenario.
C4_NeverEscapes == pc # "crashed"

\* C5: when a scenario of a batch is evaluated, every state snapshot,
\* policy-execution record and event was captured during that scenario's run.
C5_OnlyOwnRecords ==
    pc = "eval" =>
        /\ \A i \in DOMAIN state_history : state_history[i].time = run
        /\ \A i \in DOMAIN policy_runs : policy_runs[i] = run
        /\ \A i \in DOMAIN events : events[i].captured_at = run

\* C6: a run that raised inside the try block returns FAILED with 0 passed
\* and 1 failed and the error text as its only detail, whatever verdicts had
\* been collected.
C6_ErrorResult ==
    (Returned /\ error # "") =>
        /\ LastResult.status = "FAILED"
        /\ LastResult.assertions_passed = 0
        /\ LastResult.assertions_failed = 1
        /\ LastResult.details = [error |-> error]

\* The evaluation raised with a verdict already collected.
C6_Witness ==
    /\ Returned /\ error = "AttributeError"
    /\ Len(verdicts) >= 1

\* C7: a run that did not raise returns the counts of the passed and of the
\* failed verdicts, which add up to the verdicts in details, and PASSED
\* exactly when no verdict failed.
C7_EvaluatedResult ==
    (Returned /\ error = "") =>
        LET v == LastResult.details.assertions
        IN  /\ v = verdicts
            /\ LastResult.assertions_passed =
                  Cardinality({i \in DOMAIN v : v[i].passed})
            /\ LastResult.assertions_failed =
                  Cardinality({i \in DOMAIN v : ~v[i].passed})
            /\ LastResult.assertions_passed + LastResult.assertions_failed = Len(v)
            /\ (LastResult.status = "PASSED") = (LastResult.assertions_failed = 0)
            /\ LastResult.status \in {"PASSED", "FAILED"}

\* A scenario without verdicts returned PASSED with 0 passed and 0 failed.
C7_Witness ==
    /\ Returned /\ error = ""
    /\ verdicts = <<>>
    /\ LastResult.status = "PASSED"
    /\ LastResult.assertions_passed = 0 /\ LastResult.assertions_failed = 0

\* C8: a join that timed out is followed by the close and the return of
\* stop_observing and by the evaluation; the run raises only where the
\* evaluation itself raises, its result is otherwise PASSED exactly when no
\* verdict failed, and run_scenario eventually returns.
C8_TimeoutProceeds ==
    /\ [](join_timeout =>
            /\ pc \in {"close", "cancel", "eval", "except", "next", "closing",
                      "finished"}
            /\ (error # "" => error = "AttributeError")
            /\ (Returned /\ error = "") =>
                  /\ LastResult.details.assertions = verdicts
                  /\ (LastResult.status = "PASSED") =
                        (\A i \in DOMAIN verdicts : verdicts[i].passed))
    /\ (join_timeout ~> Returned)

\* A run whose join timed out returned PASSED.
C8_Witness ==
    /\ join_timeout /\ Returned
    /\ LastResult.status = "PASSED"
    /\ threads[thread].pc # "dead"

\* start_observing has begun and stop_observing has been called since.
Stopped == tasks[1].pc = "gather" /\ ~api_observing

\* C9: once stop_observing has been called no polling loop goes from its
\* sleep into a new iteration, a loop that has returned stays so, and every
\* loop eventually returns.
C9_StopEndsLoops ==
    /\ [][Stopped =>
            \A l \in Loops :
                /\ tasks[1].lpc[l] = "sleep" =>
                      tasks'[1].lpc[l] \in {"sleep", "exit"}
                /\ tasks[1].lpc[l] = "exit" => tasks'[1].lpc[l] = "exit"]_vars
    /\ (Stopped ~> (\A l \in Loops : tasks[1].lpc[l] = "exit"))

\* All five loops have returned after a stop that found the states loop in
\* an iteration over two systems.
C9_Witness ==
    /\ Stopped
    /\ Len(tasks[1].systems) = 2
    /\ \A l \in Loops : tasks[1].lpc[l] = "exit"

\* The states loop takes the reply to its query in this step.
StatesReplyStep ==
    /\ tasks[1].lpc["states"] = "query"
    /\ <<tasks'[1].lpc["states"], tasks'[1].si>> #
          <<tasks[1].lpc["states"], tasks[1].si>>

\* C10: the reply to a status query that failed (exception or status other
\* than 200) appends no snapshot and leaves _observe_states in its loop, and
\* a wake-up with the flag set starts a further iteration.
C10_FailedQueryContinues ==
    [][/\ (StatesReplyStep /\ tasks'[1].reply \in {"exc", "n200"}) =>
              /\ state_history' = state_history
              /\ tasks'[1].lpc["states"] \in {"query", "sleep"}
       /\ (/\ tasks[1].lpc["states"] = "sleep"
           /\ tasks'[1].lpc["states"] # "sleep"
           /\ api_observing) =>
              tasks'[1].lpc["states"] = "query"]_vars

\* After a query that raised, the loop is in the first query of a further
\* iteration, with nothing appended.
C10_Witness ==
    /\ api_observing
    /\ tasks[1].reply = "exc"
    /\ tasks[1].lpc["states"] = "query" /\ tasks[1].si = 1
    /\ state_history = <<>>

\* C11: in an iteration of _observe_states every tracked system is queried:
\* the reply to the query for a system that is not the last one, whatever
\* the reply, is followed by the query for the next system, and a reply with
\* valid data appends exactly one snapshot, of the system queried.
C11_EverySystemQueried ==
    [][StatesReplyStep =>
          /\ tasks[1].si < Len(tasks[1].systems) =>
                /\ tasks'[1].lpc["states"] = "query"
                /\ tasks'[1].si = tasks[1].si + 1
          /\ tasks'[1].reply = "ok" =>
                /\ Len(state_history') = Len(state_history) + 1
                /\ state_history'[Len(state_history')].system =
                      tasks[1].systems[tasks[1].si]]_vars

\* C12: state_history and the event log only grow at the end, their earlier
\* contents staying as they were, state_history is written only by a step of
\* _observe_states and the event log only by the consumer thread's append:
\* no step of the caller, of the evaluation or of another loop changes them.
C12_AppendOnly ==
    [][/\ IsPrefix(state_history, state_history')
       /\ Len(state_history') <= Len(state_history) + 1
       /\ IsPrefix(events, events')
       /\ Len(events') <= Len(events) + 1
       /\ state_history' # state_history =>
             /\ tasks[1].lpc["states"] = "query"
             /\ UNCHANGED <<runnerVars, kafkaVars>>
       /\ events' # events =>
             /\ threads[1].pc = "got" /\ threads'[1].pc = "iter"
             /\ UNCHANGED <<runnerVars, apiVars>>]_vars

\* Both histories hold two records when the evaluation has ended.
C12_Witness ==
    /\ pc = "finished"
    /\ Len(state_history) = 2
    /\ Len(events) = 2 /\ events[1] # events[2]
    /\ Len(verdicts) = 4

\* C13: policy_executions never holds two equal records, whatever pages the
\* polls return, and a poll only adds at the end: what was accumulated stays,
\* in place, also when a later page does not list it.
C13_Deduplicated ==
    /\ [](\A i, j \in DOMAIN policy_executions :
            i # j => policy_executions[i] # policy_executions[j])
    /\ [][IsPrefix(policy_executions, policy_executions')]_vars

\* Both records have been accumulated, over polls whose pages can repeat
\* them, and the loop has ended.
C13_Witness ==
    /\ Len(policy_executions) = 2
    /\ tasks[1].lpc["policies"] = "exit"

\* A step the caller takes inside one of the two stop_observing calls.
StopStep == pc \in {"stop_api", "stop_kafka", "join", "close"} /\ pc' # pc

\* What the two observers hold: flags, histories, thread and consumer.
observerState ==
    <<api_observing, state_history, policy_executions, chaos_experiments,
      drift_records, contract_violations, kafka_observing, consumer, thread,
      closed, events>>

\* C15: no step of a stop_observing call raises, whether the observer was
\* started or not, and the steps of a second call in succession (no
\* start_observing has begun to run since the first one cleared the flag), or
\* of a call on observers that were never started, leave the flags, the
\* histories, the thread and the consumer as they were.
C15_StopIdempotent ==
    [][StopStep =>
        /\ pc' # "crashed"
        /\ (StopCalls >= 1 /\ ~api_observing) => UNCHANGED observerState
        /\ (thread = 0 /\ consumer = 0 /\ ~kafka_observing /\ ~api_observing)
              => UNCHANGED observerState]_vars

\* Both observers were started, captured something, and stop has returned
\* twice.
C15_Witness ==
    /\ pc = "idle" /\ StopCalls = 2
    /\ thread # 0 /\ consumer \in closed /\ tasks[1] # NoTask
    /\ events # <<>> /\ state_history # <<>>

\* Stop has returned twice on observers that were never started.
C15_NeverStarted ==
    /\ pc = "idle" /\ StopCalls = 2
    /\ thread = 0 /\ consumer = 0 /\ tasks[1] = NoTask

\* The polling loops over the systems' states that are running.
StatesLoops == {g \in DOMAIN tasks : tasks[g].lpc["states"] \in {"query", "sleep"}}

\* C14: start_observing on an observer that is already observing adds no
\* second set of polling loops: at most one loop polls the systems' states,
\* so a system gets at most one snapshot per polling interval.
C14_OneSetOfLoops == Cardinality(StatesLoops) <= 1

\* The snapshots of one system, in capture order.
OwnSnapshots(history, system) ==
    SelectSeq(history, LAMBDA r : r.system = system)

\* One entry for every two consecutive snapshots whose states differ.
RECURSIVE ChangedPairs(_)
ChangedPairs(own) ==
    IF Len(own) < 2 THEN <<>>
    ELSE (IF own[1].state # own[2].state
          THEN <<[from |-> StateText(own[1].state), to |-> StateText(own[2].state)]>>
          ELSE <<>>)
         \o ChangedPairs(Tail(own))

\* C16: get_state_transitions(system) returns, in capture order, exactly one
\* entry "p -> c" for every two consecutive snapshots of the system whose
\* states differ and none for equal ones, whatever the states are, a missing
\* (None) or empty one included.
C16_EveryChange ==
    systems # <<>> =>
        transitions = ChangedPairs(OwnSnapshots(state_history, systems[1]))

\* The run was evaluated and its result returned.
Evaluated ==
    /\ pc = "finished" /\ Len(results) = 1
    /\ "assertions" \in DOMAIN results[1].details

\* The verdict type of each expectation category.
VerdictType ==
    [c \in {"states", "policies", "events", "metrics"} |->
        IF c = "states" THEN "state" ELSE IF c = "policies" THEN "policy"
        ELSE IF c = "events" THEN "event" ELSE "metric"]

\* C17: every descriptor of every category present in the scenario (states,
\* policies, events, metrics) contributes a verdict of its category to the
\* result, and a category that is absent contributes none.
C17_VerdictPerDescriptor ==
    Evaluated =>
        \A c \in DOMAIN VerdictType :
            LET v == results[1].details.assertions
            IN  Cardinality({i \in DOMAIN v : v[i].type = VerdictType[c]})
                  = IF c \in DOMAIN scenario.expectations
                    THEN Len(scenario.expectations[c]) ELSE 0

\* A scenario with no CHAOS action and no states category whose only
\* expectations are events descriptors.
EventsOnly(sc) ==
    /\ DOMAIN sc.expectations = {"events"}
    /\ \A i \in DOMAIN sc.actions : sc.actions[i].type # "CHAOS"
    /\ \A i \in DOMAIN sc.expectations.events : sc.expectations.events[i].isdict

\* The count an events descriptor asks for (1 when it names none).
WantedCount(d) == IF "count" \in DOMAIN d THEN d.count ELSE 1

\* C18: for a scenario with no CHAOS action and no states category whose
\* only expectations are events descriptors, the result has exactly one
\* verdict per descriptor, which passes if and only if the number of events
\* of that type in the log equals the count exactly; the run is PASSED when
\* all pass, with assertions_passed and assertions_failed counting them.
C18_ExactEventCount ==
    (Evaluated /\ EventsOnly(scenario)) =>
        LET v == results[1].details.assertions
            d == scenario.expectations.events
            ok == {i \in DOMAIN d :
                     Cardinality({k \in DOMAIN events : events[k].eventType = d[i].type})
                        = WantedCount(d[i])}
        IN  /\ Len(v) = Len(d)
            /\ \A i \in DOMAIN d : v[i].type = "event" /\ (v[i].passed <=> i \in ok)
            /\ results[1].status = IF ok = DOMAIN d THEN "PASSED" ELSE "FAILED"
            /\ results[1].assertions_passed = Cardinality(ok)
            /\ results[1].assertions_failed = Len(d) - Cardinality(ok)

\* One REST action, a wait, events [{type: CircuitOpened, count: 1}] and a
\* log with exactly one CircuitOpened (next to an event of another type):
\* PASSED with one assertion passed and none failed.
C18_Witness ==
    /\ Evaluated
    /\ scenario.actions = <<RestAction, WaitAction(<<"5", "s">>)>>
    /\ scenario.expectations =
          Expectations({"events"}, <<>>, <<>>, <<EventExp("CircuitOpened", 1)>>)
    /\ Len(events) = 2 /\ CountOfType(events, "CircuitOpened") = 1
    /\ results[1].status = "PASSED"
    /\ results[1].assertions_passed = 1 /\ results[1].assertions_failed = 0

\* Some captured execution record has the id in its id or its name field.
SomeRecordNamed(id) ==
    \E k \in DOMAIN policy_executions :
        policy_executions[k].policyId = id \/ policy_executions[k].policyName = id

\* should_fire of a policies descriptor, true when it names none.
ShouldFire(d) == "should_fire" \notin DOMAIN d \/ d.should_fire

\* C19: the verdict of a policies descriptor {policy_id, should_fire} with
\* should_fire true (the default) passes if and only if some captured record
\* has its id or its name field equal to policy_id, and with should_fire
\* false if and only if none has; a should_fire descriptor no record matches
\* gives the message "Policy <id> was not triggered" and a FAILED run.
C19_PolicyMembership ==
    \A i \in DOMAIN verdicts :
        LET item == EvalPlan(scenario)[i]
        IN  item.kind = "policy" =>
              /\ verdicts[i].type = "policy"
              /\ verdicts[i].passed <=>
                    (ShouldFire(item.d) <=> SomeRecordNamed(item.d.policy_id))
              /\ (ShouldFire(item.d) /\ ~SomeRecordNamed(item.d.policy_id)) =>
                    /\ verdicts[i].message =
                          <<"Policy", item.d.policy_id, "was not triggered">>
                    /\ Evaluated => results[1].status = "FAILED"

\* No captured record matches p1, should_fire is left to its default, and
\* the run is FAILED with the message naming p1 as not triggered; another
\* descriptor of the same run is matched through the name field only.
C19_Witness ==
    /\ Evaluated
    /\ scenario.expectations =
          Expectations({"policies"}, <<>>,
                       <<PolicyExpDefault("p1"), PolicyExp("n1", TRUE)>>, <<>>)
    /\ policy_executions = <<>>
    /\ results[1].status = "FAILED"
    /\ results[1].details.assertions[1].message = <<"Policy", "p1", "was not triggered">>

\* A record whose name field alone equals the id makes the policy count as
\* fired.
C19_ByName ==
    /\ Evaluated
    /\ \E i \in DOMAIN verdicts :
        /\ EvalPlan(scenario)[i].kind = "policy"
        /\ verdicts[i].passed /\ ShouldFire(EvalPlan(scenario)[i].d)
        /\ \A k \in DOMAIN policy_executions :
              policy_executions[k].policyId # EvalPlan(scenario)[i].d.policy_id

\* C20: without fail-fast, run_all_scenarios runs every loaded scenario once,
\* in order, and has a result for each when it ends, also when an earlier
\* scenario ended in a fatal error (at observer start too).
C20_EveryScenarioRun ==
    (~fail_fast /\ pc \in {"finished", "crashed"}) =>
        /\ Len(results) = nscen
        /\ \A i \in DOMAIN results : results[i].scenario_name = i

\* C21: a bus message that cannot be decoded, or that decodes to something
\* that is no JSON object, is skipped: a delivery that gives no event appends
\* nothing and takes the thread back to its while test; the thread ends only
\* at that test and only with the flag cleared, with the flag set it goes on
\* to the consumer; and a well-formed message it then takes is appended by
\* its next step.
C21_MalformedSkipped ==
    [][\A t \in DOMAIN threads :
        /\ (threads[t].pc = "iter" /\ threads'[t].pc # "iter"
            /\ threads'[t].pc # "got")
              => (threads'[t].pc = "check" /\ events' = events)
        /\ (threads[t].pc # "dead" /\ threads'[t].pc = "dead")
              => (threads[t].pc = "check" /\ ~kafka_observing)
        /\ (threads[t].pc = "check" /\ kafka_observing /\ threads'[t] # threads[t])
              => threads'[t].pc = "iter"
        /\ (threads[t].pc = "got" /\ threads'[t] # threads[t])
              => events' = events \o threads[t].msg]_vars

\* The thread has been through its except clause for a malformed message,
\* is alive, and with the flag still set has since taken a well-formed
\* message, which it holds for the append.
C21_Witness ==
    /\ kafka_observing /\ thread # 0
    /\ threads[thread].erred /\ threads[thread].pc = "got"
    /\ events = <<>>

\* C22: execute never raises to its caller: the call started for an action
\* is either suspended in its await or has returned an outcome, and the
\* outcome of a WAIT action has success = TRUE whatever its duration.
C22_ExecuteNeverRaises ==
    [][(pc = "actions" /\ ai' = ai + 1) =>
        /\ pc' \in {"exec", "actions"}
        /\ scenario.actions[ai'].type = "WAIT" =>
              \A o \in ExecuteOutcomes(scenario.actions[ai']) : o.success]_vars

\* The call of the assertion `name` has been made.
Called(name) == verdicts # <<>> /\ verdicts[1].type = name

\* C23: assert_no_duplicate_events(events, t) fails whenever two captured
\* events of type t carry the same event id and passes when the ids of the
\* events of type t are pairwise distinct, whatever the other events are.
C23_DuplicatesFound ==
    Called("no_duplicates") =>
        LET ofType == {i \in DOMAIN events : events[i].eventType = verdicts[1].args[1]}
        IN  verdicts[1].passed <=>
              \A i, j \in ofType : i # j => events[i].eventId # events[j].eventId

\* Policy executions that match the id, by id or by name field.
Matching(id) ==
    {i \in DOMAIN policy_executions :
        policy_executions[i].policyId = id \/ policy_executions[i].policyName = id}

\* The execution reports success (a missing field is no success).
Succeeded(e) == "success" \in DOMAIN e /\ e.success

\* C24: assert_policy_success fails with "not found" when no execution
\* matches the id, fails with "had failures" when some matching execution
\* has success false or missing, and passes only when some execution
\* matches and every matching one reports success; executions that do not
\* match have no part in the verdict.
C24_PolicySuccess ==
    Called("policy_success") =>
        LET id == verdicts[1].args[1]
            v == verdicts[1]
        IN  /\ Matching(id) = {} =>
                  (~v.passed /\ v.message = <<"Policy", id, "not found">>)
            /\ (\E i \in Matching(id) : ~Succeeded(policy_executions[i])) =>
                  (~v.passed /\ v.message = <<"Policy", id, "had failures">>)
            /\ (Matching(id) # {}
                /\ \A i \in Matching(id) : Succeeded(policy_executions[i])) =>
                  v.passed

\* The policy passes although an execution that does not match it failed.
C24_Witness ==
    /\ Called("policy_success") /\ verdicts[1].passed
    /\ Matching(verdicts[1].args[1]) # {}
    /\ \E i \in DOMAIN policy_executions :
          i \notin Matching(verdicts[1].args[1]) /\ ~Succeeded(policy_executions[i])

\* The three outcomes are all met for one id: a matching execution without
\* a success field gives "had failures".
C24_MissingSuccess ==
    /\ Called("policy_success") /\ ~verdicts[1].passed
    /\ verdicts[1].message[3] = "had failures"
    /\ \A i \in Matching(verdicts[1].args[1]) :
          "success" \notin DOMAIN policy_executions[i]

\* C25: assert_final_state(history, system, expected) passes if and only if
\* the last snapshot of the system, in capture order and whatever follows it
\* from other systems, has the expected state; with no snapshot of the
\* system it fails with "No state history", with another last state it fails
\* with "Expected final state ... got ...".
C25_FinalState ==
    Called("final_state") =>
        LET sys == verdicts[1].args[1]
            expected == verdicts[1].args[2]
            own == {i \in DOMAIN state_history : state_history[i].system = sys}
            last == CHOOSE i \in own : \A j \in own : j <= i
            v == verdicts[1]
        IN  IF own = {}
            THEN ~v.passed /\ v.message[1] = "No state history for"
            ELSE /\ v.passed <=> state_history[last].state = expected
                 /\ ~v.passed => v.message[1] = "Expected final state"

\* The system's last snapshot has the expected state and a later snapshot
\* of the other system has another one: the assertion passes.
C25_Witness ==
    /\ Called("final_state") /\ verdicts[1].passed
    /\ Len(state_history) >= 2
    /\ state_history[Len(state_history)].system # verdicts[1].args[1]
    /\ state_history[Len(state_history)].state # verdicts[1].args[2]

\* C26: assert_event_order(events, types) passes if and only if the types of
\* the captured events that occur in the expected list, in capture order and
\* with repetitions, are the expected list; events of other types are
\* ignored.
C26_EventOrder ==
    Called("event_order") =>
        LET types == verdicts[1].args[1]
            listed == SelectSeq(events,
                        LAMBDA e : \E k \in DOMAIN types : types[k] = e.eventType)
        IN  verdicts[1].passed <=>
              /\ Len(listed) = Len(types)
              /\ \A i \in DOMAIN types : listed[i].eventType = types[i]

\* A repeated event of a listed type makes the assertion fail.
C26_Witness ==
    /\ Called("event_order") /\ ~verdicts[1].passed
    /\ verdicts[1].args[1] = <<"CircuitOpened">>
    /\ CountOfType(events, "CircuitOpened") = 2

\* An event of an unlisted type between the listed ones is ignored.
C26_Ignored ==
    /\ Called("event_order") /\ verdicts[1].passed
    /\ verdicts[1].args[1] = <<"CircuitOpened", "CircuitOpened">>
    /\ Len(events) = 3 /\ events[2].eventType = "Other"

\* C27: assert_threshold(name, actual, op, threshold) passes exactly when
\* op is one of < <= > >= == != and actual op threshold holds, so it fails
\* for every other operator whatever the values; the retry-count and the
\* latency wrapper pass exactly when actual < max.
C27_Threshold ==
    /\ Called("threshold") =>
        LET a == verdicts[1].args[1]
            op == verdicts[1].args[2]
            th == verdicts[1].args[3]
        IN  verdicts[1].passed <=>
              \/ op = "<" /\ a < th
              \/ op = "<=" /\ a <= th
              \/ op = ">" /\ a > th
              \/ op = ">=" /\ a >= th
              \/ op = "==" /\ a = th
              \/ op = "!=" /\ a # th
    /\ (Called("retry_count_below") \/ Called("latency_below")) =>
        (verdicts[1].passed <=> verdicts[1].args[1] < verdicts[1].args[2])

\* An operator that is not in the table fails although the values are
\* equal.
C27_Witness ==
    /\ Called("threshold") /\ ~verdicts[1].passed
    /\ verdicts[1].args[2] = "=<"
    /\ verdicts[1].args[1] = verdicts[1].args[3]
    /\ verdicts[1].message[1] = "Invalid operator"

\* C28: whenever run_scenario has returned a result, on the normal or on
\* the error path, both observers have been stopped: neither observing flag
\* is set and the Kafka consumer is closed.
C28_StoppedOnReturn ==
    Returned =>
        /\ ~api_observing
        /\ ~kafka_observing
        /\ consumer \in closed

\* Consumer threads inside their for loop over a consumer that is open.
Consuming ==
    {t \in DOMAIN threads :
        threads[t].pc \in {"iter", "got"} /\ threads[t].cons \notin closed}

\* C29: across the start / stop cycles of one KafkaObserver at most one
\* consumer thread is consuming: a thread that outlived a timed-out stop
\* does not go back to consuming when a later start sets the flag again and
\* replaces the consumer.
C29_OneConsumerThread == Cardinality(Consuming) <= 1

\* The distinct non-empty system names of the scenario's CHAOS actions and
\* states expectations.
DerivedSystems ==
    LET chaos == {i \in DOMAIN scenario.actions : scenario.actions[i].type = "CHAOS"}
        states == IF "states" \in DOMAIN scenario.expectations
                  THEN {i \in DOMAIN scenario.expectations.states :
                          scenario.expectations.states[i].isdict}
                  ELSE {}
    IN  ({scenario.actions[i].system : i \in chaos}
         \cup {scenario.expectations.states[i].system : i \in states})
        \ {None, ""}

\* C30: on the non-error path the result has exactly one state verdict per
\* derived system, and each of them fails if and only if some snapshot of
\* the state history, of whatever system, has a state in {UNKNOWN, ERROR,
\* INVALID}: the state verdicts of one result agree.
C30_StateVerdicts ==
    Evaluated =>
        LET v == results[1].details.assertions
            sv == {i \in DOMAIN v : v[i].type = "state"}
        IN  /\ Cardinality(sv) = Cardinality(DerivedSystems)
            /\ \A i \in sv :
                  ~v[i].passed <=>
                     \E k \in DOMAIN state_history :
                        state_history[k].state \in {"UNKNOWN", "ERROR", "INVALID"}
            /\ \A i, j \in sv : v[i].passed = v[j].passed

\* Two systems are derived from states descriptors that repeat one and name
\* an empty one, and both state verdicts fail over a snapshot of one system.
C30_Witness ==
    /\ Evaluated
    /\ Cardinality(DerivedSystems) = 2
    /\ Len(scenario.expectations.states) = 4
    /\ state_history # <<>>
    /\ Len(results[1].details.assertions) = 2
    /\ \A i \in 1..2 : ~results[1].details.assertions[i].passed

====
